---- MODULE Spec2Model ----
(***************************************************************************)
(* Model of the wireless-data-license-processor core:                      *)
(*   - the streaming record parser   (src/src/wdlp/reader.py, PullParser)  *)
(*   - the atomic multi-format writer (src/src/wdlp/writer.py)             *)
(* The parser and the writer are independent subsystems; each has its own  *)
(* specification (ParserSpec, WriterSpec) over its own variables.          *)
(***************************************************************************)
EXTENDS Integers, Sequences, FiniteSets, TLC

VARIABLES
    parser,   \* the PullParser object: stream, buffer, pos, state and its ParserContext
    pc,       \* position of the caller: "idle" between calls, "loop" inside __next__
    result,   \* outcome of the last completed __next__ call
    obs,      \* observation counters of the run (calls made, errors raised, delimiters seen)
    writer,   \* the writer object: kind, _temp_file, _writer, _error_state, _headers, _schema
    fs,       \* the file system: the final path, the current temporary file, files left behind
    buf,      \* data written to the _temp_file handle and not yet flushed to the file
    wpc,      \* position of the writer's caller: "out", "body", "exit_close", "exit_finalize", "exit_finally"
    wres,     \* outcome of the last writer operation: "None", "ok" or the exception raised
    tx        \* record of the current transaction (what was accepted, how the block was left)

pvars == <<parser, pc, result, obs>>
wvars == <<writer, fs, buf, wpc, wres, tx>>

(***************************************************************************)
(* Characters.  One ordinary character stands for every character that is  *)
(* not a delimiter, a carriage return or a line feed.                      *)
(***************************************************************************)
PIPE == "|"
CR == "\r"
LF == "\n"
ORD == "a"
Alphabet == {ORD, PIPE, CR, LF}

\* PullParser.MAX_FIELD_LENGTH and PullParser.MAX_FIELDS
MAX_FIELD_LENGTH == 1024
MAX_FIELDS == 256

\* Bounds of the model
MaxInputLen == 4     \* short inputs: every string over Alphabet up to this length
MaxSuffixLen == 1    \* long inputs: every string up to this length after the long part
MaxCalls == 6        \* number of __next__ calls made on one parser
MaxWrites == 2       \* write calls made inside one with-block
MaxTx == 2           \* transactions opened on one destination path

Rep(c, n) == [i \in 1..n |-> c]

RECURSIVE Strings(_)
Strings(n) ==
    IF n = 0 THEN {<<>>}
    ELSE LET S == Strings(n - 1) IN
         S \cup {Append(s, c) : s \in {t \in S : Len(t) = n - 1}, c \in Alphabet}

RepSeq(s, n) == [i \in 1..(n * Len(s)) |-> s[((i - 1) % Len(s)) + 1]]

(***************************************************************************)
(* Outcomes of a __next__ call.                                            *)
(***************************************************************************)
NoOutcome == [kind |-> "none"]
StopIteration == [kind |-> "StopIteration"]
Record(line, fields) == [kind |-> "Record", line |-> line, fields |-> fields]
ParseError(line, column, expected, received, consumed_fields, partial_field, context) ==
    [kind |-> "ParseError", line |-> line, column |-> column, expected |-> expected,
     received |-> received, consumed_fields |-> consumed_fields,
     partial_field |-> partial_field, context |-> context]

\* what one pass of the loop of __next__ yields: the parser after it and, when the
\* call ends in this pass, its outcome
Ret(p, out) == [p |-> p, out |-> out]
Continue(p) == [p |-> p, out |-> NoOutcome]

\* ParserContext.__init__ and PullParser.__init__ on an input stream (a sequence of chunks)
PullParser(input_stream) ==
    [stream |-> input_stream, buffer |-> <<>>, pos |-> 0, state |-> "START",
     current_field |-> <<>>, fields |-> <<>>, field_length |-> 0, field_count |-> 0,
     line |-> 1, column |-> 1, record_start_line |-> 1, error |-> "None",
     in_record |-> FALSE]

\* PullParser._complete_field: join the characters, strip one trailing LF, then one trailing CR
StripLast(f, c) == IF Len(f) > 0 /\ f[Len(f)] = c THEN SubSeq(f, 1, Len(f) - 1) ELSE f
complete_field(p) == StripLast(StripLast(p.current_field, LF), CR)

\* PullParser._add_field: the field is appended and counted before the limit is checked
add_field(p, field) ==
    LET q == [p EXCEPT !.fields = Append(@, field), !.current_field = <<>>,
                       !.field_length = 0, !.field_count = @ + 1]
    IN IF q.field_count > MAX_FIELDS
       THEN Ret(q, ParseError(q.line, q.column, "field count <= MAX_FIELDS",
                              q.field_count, SubSeq(q.fields, 1, Len(q.fields) - 1),
                              <<>>, "Too many fields in record"))
       ELSE Continue(q)

\* a variant of _complete_record that leaves the field count as it is
complete_record_keeping_field_count(p) ==
    IF Len(p.fields) < 1
    THEN Ret(p, ParseError(p.record_start_line, p.column, "minimum 1 field per record",
                           Len(p.fields), p.fields, <<>>,
                           "Record must contain at least one field"))
    ELSE Ret([p EXCEPT !.fields = <<>>, !.state = "START"],
             Record(p.record_start_line, p.fields))

\* PullParser._complete_record
complete_record(p) ==
    IF Len(p.fields) < 1
    THEN Ret(p, ParseError(p.record_start_line, p.column, "minimum 1 field per record",
                           Len(p.fields), p.fields, <<>>,
                           "Record must contain at least one field"))
    ELSE Ret([p EXCEPT !.fields = <<>>, !.field_count = 0, !.state = "START"],
             Record(p.record_start_line, p.fields))

\* the common tail "record = self._complete_record(); line += 1; in_record = False; return record"
finish_record(p) ==
    LET r == complete_record(p)
    IN IF r.out.kind = "Record"
       THEN Ret([r.p EXCEPT !.line = @ + 1, !.in_record = FALSE], r.out)
       ELSE r

\* "self._add_field(f)" followed by the common tail, which runs only if no error was raised
add_field_then_finish(p, field) ==
    LET a == add_field(p, field) IN IF a.out.kind = "ParseError" THEN a ELSE finish_record(a.p)

\* "self._add_field(f); return self._complete_record()" of the end-of-stream branch
add_field_then_complete(p, field) ==
    LET a == add_field(p, field) IN IF a.out.kind = "ParseError" THEN a ELSE complete_record(a.p)

\* a variant of on_START in which a leading delimiter emits an empty first field
on_START_emitting_empty_field(p, char) ==
    IF char = PIPE THEN
        add_field([p EXCEPT !.state = "AFTER_PIPE", !.record_start_line = p.line,
                            !.in_record = TRUE], <<>>)
    ELSE IF char = LF THEN Continue([p EXCEPT !.line = @ + 1])
    ELSE IF char = CR THEN Continue(p)
    ELSE
        Continue([p EXCEPT !.state = "FIELD", !.record_start_line = p.line,
                           !.current_field = Append(@, char), !.field_length = 1,
                           !.in_record = TRUE])

\* __next__, state START (reader.py 161-201)
on_START(p, char) ==
    IF char = PIPE THEN
        IF p.fields = <<>>
        THEN Ret(p, ParseError(p.line, p.column, "minimum 1 field per record", 0, <<>>, <<>>,
                               "Record must contain at least one field"))
        ELSE add_field([p EXCEPT !.state = "AFTER_PIPE", !.record_start_line = p.line,
                                 !.in_record = TRUE], <<>>)
    ELSE IF char = LF THEN
        IF p.in_record
        THEN Ret(p, ParseError(p.line, p.column, "minimum 1 field per record", 0, <<>>, <<>>,
                               "Empty record found"))
        ELSE Continue([p EXCEPT !.line = @ + 1])
    ELSE IF char = CR THEN
        Continue(IF p.in_record THEN [p EXCEPT !.state = "AFTER_CR"] ELSE p)
    ELSE
        Continue([p EXCEPT !.state = "FIELD", !.record_start_line = p.line,
                           !.current_field = Append(@, char), !.field_length = 1,
                           !.in_record = TRUE])

\* the length check of state FIELD (reader.py 221): the branch that appends an ordinary character
field_too_long(p) == p.field_length >= MAX_FIELD_LENGTH

\* __next__, state FIELD (reader.py 203-232)
on_FIELD(p, char) ==
    IF char = PIPE THEN
        add_field([p EXCEPT !.state = "AFTER_PIPE"], complete_field(p))
    ELSE IF char = CR THEN
        Continue([p EXCEPT !.state = "AFTER_CR"])
    ELSE IF char = LF THEN
        add_field_then_finish(p, complete_field(p))
    ELSE
        IF field_too_long(p)
        THEN Ret(p, ParseError(p.line, p.column - 1, "field length <= MAX_FIELD_LENGTH",
                               p.field_length + 1, p.fields, complete_field(p),
                               "Field length constraint violation"))
        ELSE Continue([p EXCEPT !.current_field = Append(@, char), !.field_length = @ + 1])

\* a variant of on_AFTER_PIPE in which a line feed completes the record without a trailing
\* empty field
on_AFTER_PIPE_without_trailing_field(p, char) ==
    IF char = PIPE THEN
        add_field(p, <<>>)
    ELSE IF char = CR THEN
        add_field([p EXCEPT !.state = "AFTER_CR"], <<>>)
    ELSE IF char = LF THEN
        finish_record(p)
    ELSE
        Continue([p EXCEPT !.state = "FIELD", !.current_field = <<char>>, !.field_length = 1])

\* __next__, state AFTER_PIPE (reader.py 234-256)
on_AFTER_PIPE(p, char) ==
    IF char = PIPE THEN
        add_field(p, <<>>)
    ELSE IF char = CR THEN
        add_field([p EXCEPT !.state = "AFTER_CR"], <<>>)
    ELSE IF char = LF THEN
        add_field_then_finish(p, <<>>)
    ELSE
        Continue([p EXCEPT !.state = "FIELD", !.current_field = <<char>>, !.field_length = 1])

\* __next__, state AFTER_CR (reader.py 258-276)
on_AFTER_CR(p, char) ==
    IF char = LF THEN
        IF p.current_field # <<>>
        THEN add_field_then_finish(p, complete_field(p))
        ELSE finish_record(p)
    ELSE
        Continue([p EXCEPT !.state = "FIELD",
                           !.current_field = Append(Append(@, CR), char),
                           !.field_length = @ + 2])

\* a variant of on_char whose column counter is not reset at a line feed
on_char_never_resetting_column(p0, char) ==
    LET p == [p0 EXCEPT !.column = @ + 1]
    IN CASE p.state = "START" -> on_START(p, char)
         [] p.state = "FIELD" -> on_FIELD(p, char)
         [] p.state = "AFTER_PIPE" -> on_AFTER_PIPE(p, char)
         [] p.state = "AFTER_CR" -> on_AFTER_CR(p, char)

\* column tracking (reader.py 154-158), then the dispatch on the state
on_char(p0, char) ==
    LET p == [p0 EXCEPT !.column = IF char = LF THEN 1 ELSE @ + 1]
    IN CASE p.state = "START" -> on_START(p, char)
         [] p.state = "FIELD" -> on_FIELD(p, char)
         [] p.state = "AFTER_PIPE" -> on_AFTER_PIPE(p, char)
         [] p.state = "AFTER_CR" -> on_AFTER_CR(p, char)

\* a variant of on_eof that ends the sequence at the end of the stream in every state
on_eof_dropping_partial_record(p) == Ret(p, StopIteration)

\* end of stream: stream.read returned an empty chunk (reader.py 135-144)
on_eof(p) ==
    IF p.state = "START" /\ p.fields = <<>>
    THEN Ret(p, StopIteration)
    ELSE IF p.state = "FIELD"
    THEN add_field_then_complete(p, complete_field(p))
    ELSE Ret(p, StopIteration)

\* a variant of next_iter that starts the current field anew whenever a chunk is fetched
next_iter_restarting_field_at_refill(p) ==
    IF p.pos < Len(p.buffer)
    THEN on_char([p EXCEPT !.pos = @ + 1], p.buffer[p.pos + 1])
    ELSE IF p.stream = <<>>
    THEN on_eof(p)
    ELSE LET chunk == Head(p.stream)
         IN on_char([p EXCEPT !.stream = Tail(@), !.buffer = chunk, !.pos = 1,
                              !.current_field = <<>>, !.field_length = 0], chunk[1])

\* a variant of next_iter that looks at the next character without moving past it
next_iter_not_advancing(p) ==
    IF p.pos < Len(p.buffer)
    THEN on_char(p, p.buffer[p.pos + 1])
    ELSE IF p.stream = <<>>
    THEN on_eof(p)
    ELSE LET chunk == Head(p.stream)
         IN on_char([p EXCEPT !.stream = Tail(@), !.buffer = chunk, !.pos = 0], chunk[1])

\* one pass of the "while True" loop of __next__ (reader.py 127-276)
next_iter(p) ==
    IF p.pos < Len(p.buffer)
    THEN on_char([p EXCEPT !.pos = @ + 1], p.buffer[p.pos + 1])
    ELSE IF p.stream = <<>>
    THEN on_eof(p)
    ELSE LET chunk == Head(p.stream)
         IN on_char([p EXCEPT !.stream = Tail(@), !.buffer = chunk, !.pos = 1], chunk[1])

\* a whole call of __next__: the loop runs until a pass returns or raises
RECURSIVE next_call(_)
next_call(p) ==
    LET r == next_iter(p) IN IF r.out.kind = "none" THEN next_call(r.p) ELSE r

\* the outcome of the n-th call of next() on parser p
RECURSIVE nth_outcome(_, _)
nth_outcome(p, n) ==
    LET r == next_call(p) IN IF n <= 1 THEN r.out ELSE nth_outcome(r.p, n - 1)

(***************************************************************************)
(* Inputs of the parser specification.                                     *)
(***************************************************************************)
ShortInputs == Strings(MaxInputLen)
Suffixes == Strings(MaxSuffixLen) \cup {<<ORD, ORD>>, <<CR, ORD, ORD>>, <<CR, CR, ORD>>, <<CR, LF>>,
                                        <<CR, ORD, LF>>, <<ORD, LF>>}
LongFieldInputs ==
    {pre \o Rep(ORD, n) \o suf :
        pre \in {<<>>, <<ORD, PIPE>>},
        n \in (MAX_FIELD_LENGTH - 2)..MAX_FIELD_LENGTH,
        suf \in Suffixes}
ManyFieldInputs ==
    {RepSeq(<<ORD, PIPE>>, n) \o suf :
        n \in (MAX_FIELDS - 1)..MAX_FIELDS,
        suf \in Suffixes}
\* a first field followed by MAX_FIELDS - 1 or MAX_FIELDS consecutive delimiters and a line feed
ManyEmptyFieldInputs ==
    {<<ORD>> \o Rep(PIPE, k) \o <<LF>> : k \in (MAX_FIELDS - 1)..MAX_FIELDS}
\* the text x with every line feed replaced by carriage return + line feed
RECURSIVE CrLfForm(_)
CrLfForm(x) ==
    IF x = <<>> THEN <<>>
    ELSE (IF Head(x) = LF THEN <<CR, LF>> ELSE <<Head(x)>>) \o CrLfForm(Tail(x))
\* every short text without carriage returns, with its lines terminated by CR LF
CrLfInputs == {CrLfForm(x) : x \in {t \in ShortInputs : \A i \in 1..Len(t) : t[i] # CR}}
Inputs ==
    ShortInputs \cup LongFieldInputs \cup ManyFieldInputs \cup ManyEmptyFieldInputs
        \cup CrLfInputs

\* the stream delivers the input in chunks; an empty input has no chunk
AsStream(input) == IF input = <<>> THEN <<>> ELSE <<input>>

\* obs: calls = completed __next__ calls; nerr = ParseErrors raised so far; delims = delimiter
\* characters consumed since the last Record was returned; from, at_eof = the parser state in
\* which the last call's final pass began, and whether that pass met the end of the stream;
\* text = the characters of the input stream the parser was constructed on
NoObs == [calls |-> 0, nerr |-> 0, delims |-> 0, from |-> "START", at_eof |-> FALSE,
          text |-> <<>>]

\* the writer's variables while the parser is studied: no writer is in use
WriterIdle ==
    /\ writer = "None" /\ fs = "None" /\ buf = <<>> /\ wpc = "out" /\ wres = "None"
    /\ tx = "None"

ParserInit ==
    /\ \E input \in Inputs :
        /\ parser = PullParser(AsStream(input))
        /\ obs = [NoObs EXCEPT !.text = input]
    /\ pc = "idle"
    /\ result = NoOutcome
    /\ WriterIdle

\* every way stream.read can deliver the text s: the sequences of non-empty chunks that
\* concatenate to s
RECURSIVE Partitions(_)
Partitions(s) ==
    IF s = <<>> THEN {<<>>}
    ELSE UNION {{<<SubSeq(s, 1, k)>> \o rest : rest \in Partitions(SubSeq(s, k + 1, Len(s)))} :
                    k \in 1..Len(s)}

\* a parser on a short input that its stream delivers in some partition into chunks
ChunkedInit ==
    /\ \E input \in ShortInputs : \E chunks \in Partitions(input) :
        /\ parser = PullParser(chunks)
        /\ obs = [NoObs EXCEPT !.text = input]
    /\ pc = "idle"
    /\ result = NoOutcome
    /\ WriterIdle

\* the parser's variables while the writer is studied: a parser of the empty stream, not called
ParserIdle ==
    /\ parser = PullParser(<<>>) /\ pc = "idle" /\ result = NoOutcome /\ obs = NoObs

\* the caller calls next(parser): __next__ re-raises a stored error, else enters its loop
CallNext ==
    /\ UNCHANGED wvars
    /\ pc = "idle"
    /\ obs.calls < MaxCalls
    /\ IF parser.error # "None"
       THEN /\ result' = parser.error
            /\ obs' = [obs EXCEPT !.calls = @ + 1]
            /\ UNCHANGED <<parser, pc>>
       ELSE /\ pc' = "loop"
            /\ obs' = [obs EXCEPT !.delims = IF result.kind = "Record" THEN 0 ELSE @]
            /\ UNCHANGED <<parser, result>>

\* whether this pass consumes a delimiter character
ReadsPipe(p) ==
    IF p.pos < Len(p.buffer) THEN p.buffer[p.pos + 1] = PIPE
    ELSE p.stream # <<>> /\ Head(p.stream)[1] = PIPE
AtEof(p) == p.pos >= Len(p.buffer) /\ p.stream = <<>>

\* one pass of the loop; the call returns or raises when the pass yields an outcome
LoopIter ==
    /\ UNCHANGED wvars
    /\ pc = "loop"
    /\ LET r == next_iter(parser)
           d == obs.delims + (IF ReadsPipe(parser) THEN 1 ELSE 0)
       IN /\ parser' = r.p
          /\ IF r.out.kind = "none"
             THEN /\ obs' = [obs EXCEPT !.delims = d]
                  /\ UNCHANGED <<pc, result>>
             ELSE /\ pc' = "idle"
                  /\ result' = r.out
                  /\ obs' = [obs EXCEPT
                                !.calls = @ + 1,
                                !.nerr = @ + (IF r.out.kind = "ParseError" THEN 1 ELSE 0),
                                !.delims = d,
                                !.from = parser.state,
                                !.at_eof = AtEof(parser)]

ParserNext == CallNext \/ LoopIter

(***************************************************************************)
(* The writer (src/src/wdlp/writer.py).                                    *)
(*                                                                         *)
(* A record handed to write is a dict: a sequence of <<key, type of value>>*)
(* items, or something that is no dict.  A file is a sequence of units     *)
(* (lines, rows); a Parquet file also has a schema and is readable only    *)
(* once its writer was closed.                                             *)
(***************************************************************************)
Kinds == {"jsonl", "ion", "csv", "parquet"}

Dict(items) == [dict |-> TRUE, items |-> items]
RecA == Dict(<<<<"record_type", "str">>, <<"system_id", "int">>>>)
RecB == Dict(<<<<"record_type", "str">>, <<"system_id", "none">>>>)
RecDate == Dict(<<<<"record_type", "str">>, <<"status_date", "date">>, <<"amount", "float">>>>)
RecObj == Dict(<<<<"invalid", "object">>>>)
RecEmpty == Dict(<<>>)
Records == {RecA, RecB, RecDate, RecObj, RecEmpty}

Keys(record) == [i \in 1..Len(record.items) |-> record.items[i][1]]
TypeOf(record, key) ==
    IF \E i \in 1..Len(record.items) : record.items[i][1] = key
    THEN record.items[CHOOSE i \in 1..Len(record.items) : record.items[i][1] = key][2]
    ELSE "none"

Absent == [exists |-> FALSE, data |-> <<>>, parquet |-> "no", schema |-> <<>>]
EmptyFile == [exists |-> TRUE, data |-> <<>>, parquet |-> "no", schema |-> <<>>]

\* what the environment does to one I/O call: it succeeds and stays buffered, it succeeds and
\* the buffer is written through, or it fails
IoOutcomes == {"ok", "spill", "fail"}

\* AbstractWriter.__init__ with CSVWriter.__init__ and ParquetWriter.__init__; _headers and
\* _schema are only ever tested by "not self._headers", "not self._schema", for which None and
\* the empty list are the same: both are the empty sequence here
NewWriterObject(kind) ==
    [kind |-> kind, temp_file |-> "None", temp_dir |-> "None", writer |-> "None",
     error_state |-> FALSE, headers |-> <<>>, schema |-> <<>>]

\* the directory of final_path, and the directory tempfile uses when it is given none
FinalDir == "dirname(final_path)"
SystemTempDir == "tempfile.gettempdir()"
\* tempfile.NamedTemporaryFile(..., dir=dir): the directory the temporary file is created in
named_temporary_file_dir(dir) == IF dir = "None" THEN SystemTempDir ELSE dir

\* the state a writer operation works on, and what it yields; exc is the exception raised
WState(w, f, b) == [writer |-> w, fs |-> f, buf |-> b]
WDone(st) == [st |-> st, exc |-> "None"]
WRaise(st, exc) == [st |-> st, exc |-> exc]
InErrorState(st) == [st EXCEPT !.writer.error_state = TRUE]

\* a variant of handle_write whose handle is open on the final path itself
handle_write_on_final_path(st, units, io) ==
    IF io = "fail" THEN WRaise(st, "OSError")
    ELSE WDone([st EXCEPT !.fs.final = [exists |-> TRUE, data |-> @.data \o units,
                                        parquet |-> "no", schema |-> <<>>]])

\* _temp_file.write(...) of some units through the buffered handle
handle_write(st, units, io) ==
    IF io = "fail" THEN WRaise(st, "OSError")
    ELSE IF io = "spill"
    THEN WDone([st EXCEPT !.fs.temp.data = @ \o st.buf \o units, !.buf = <<>>])
    ELSE WDone([st EXCEPT !.buf = @ \o units])

\* _temp_file.flush()
handle_flush(st, io) ==
    IF io = "fail" THEN WRaise(st, "OSError")
    ELSE WDone([st EXCEPT !.fs.temp.data = @ \o st.buf, !.buf = <<>>])

\* a variant of write_guard that rejects a write outside a transaction without marking the
\* writer as failed
write_guard_not_marking_error_state(st) ==
    IF st.writer.temp_file = "None" THEN WRaise(st, "WriterError")
    ELSE IF st.writer.error_state THEN WRaise(st, "WriterError")
    ELSE WDone(st)

\* a variant of write_guard that does not look at the error state
write_guard_ignoring_error_state(st) ==
    IF st.writer.temp_file = "None" THEN WRaise(InErrorState(st), "WriterError")
    ELSE WDone(st)

\* the two guards every write starts with (writer.py 99-104, 160-165, 205-210, 253-258)
write_guard(st) ==
    IF st.writer.temp_file = "None" THEN WRaise(InErrorState(st), "WriterError")
    ELSE IF st.writer.error_state THEN WRaise(st, "WriterError")
    ELSE WDone(st)

\* "except Exception as e: self._error_state = True; raise WriterError"
as_writer_error(r) == IF r.exc = "None" THEN r ELSE WRaise(InErrorState(r.st), "WriterError")

\* JSONLWriter._serialize_record: a date becomes its ISO string, None becomes null
json_value(t) == IF t = "date" THEN "iso_date_str" ELSE IF t = "none" THEN "null" ELSE t
serialize_record(record) ==
    [fmt |-> "jsonl",
     cells |-> [i \in 1..Len(record.items) |-> <<record.items[i][1], json_value(record.items[i][2])>>]]
JsonlSupported == {"str", "int", "float", "bool", "date", "dict", "list", "none"}

\* JSONLWriter.write
jsonl_write(st, record, io) ==
    LET g == write_guard(st) IN
    IF g.exc # "None" THEN g
    ELSE IF ~record.dict THEN WRaise(InErrorState(st), "WriterError")
    ELSE IF \E i \in 1..Len(record.items) : record.items[i][2] \notin JsonlSupported
    THEN WRaise(InErrorState(st), "WriterError")
    ELSE as_writer_error(handle_write(st, <<serialize_record(record)>>, io))

\* IonWriter._convert_to_ion: a date becomes an Ion timestamp, every other value is kept
ion_value(t) == IF t = "date" THEN "timestamp" ELSE t
convert_to_ion(record) ==
    [fmt |-> "ion",
     cells |-> [i \in 1..Len(record.items) |-> <<record.items[i][1], ion_value(record.items[i][2])>>]]

\* IonWriter.write: record.items() of a non-dict and ion.dump of an unsupported value raise
ion_write(st, record, io) ==
    LET g == write_guard(st) IN
    IF g.exc # "None" THEN g
    ELSE IF ~record.dict \/ \E i \in 1..Len(record.items) : record.items[i][2] = "object"
    THEN WRaise(InErrorState(st), "WriterError")
    ELSE as_writer_error(handle_write(st, <<convert_to_ion(record)>>, io))

\* CSVWriter.write: the row of a record against the header; None and missing keys give ''
csv_cell(t) == IF t = "none" THEN "" ELSE IF t = "date" THEN "iso_date_str" ELSE t
csv_row(headers, record) ==
    [fmt |-> "csv_row", cells |-> [i \in 1..Len(headers) |-> csv_cell(TypeOf(record, headers[i]))]]
csv_write(st, record, io) ==
    LET g == write_guard(st) IN
    IF g.exc # "None" THEN g
    ELSE IF ~record.dict THEN WRaise(InErrorState(st), "WriterError")
    ELSE LET first == st.writer.headers = <<>>
             headers == IF first THEN Keys(record) ELSE st.writer.headers
             st1 == [st EXCEPT !.writer.headers = headers]
             units == (IF first THEN <<[fmt |-> "csv_header", cells |-> headers]>> ELSE <<>>)
                         \o <<csv_row(headers, record)>>
         IN as_writer_error(handle_write(st1, units, io))

\* ParquetWriter.write: the column type inferred from a value of the first record
ParquetSupported == {"int", "str", "float", "bool", "date", "none"}
arrow_type(t) == IF t \in {"int", "bool"} THEN "int64" ELSE IF t = "date" THEN "date32" ELSE "string"
infer_schema(record) ==
    [i \in 1..Len(record.items) |-> <<record.items[i][1], arrow_type(record.items[i][2])>>]
\* pa.Table.from_pydict(arrays, schema): every column of the schema must be among the arrays;
\* an array of another type is cast, which succeeds or fails with the value (cast_ok)
table_fits(schema, record, cast_ok) ==
    \A i \in 1..Len(schema) :
        /\ \E j \in 1..Len(record.items) : record.items[j][1] = schema[i][1]
        /\ LET t == TypeOf(record, schema[i][1])
           IN t = "none" \/ arrow_type(t) = schema[i][2] \/ cast_ok
parquet_row(schema, record) ==
    [fmt |-> "parquet_row", cells |-> [i \in 1..Len(schema) |-> TypeOf(record, schema[i][1])]]

parquet_write(st, record, io, cast_ok) ==
    LET g == write_guard(st) IN
    IF g.exc # "None" THEN g
    ELSE IF ~record.dict THEN WRaise(InErrorState(st), "WriterError")
    ELSE IF \E i \in 1..Len(record.items) : record.items[i][2] \notin ParquetSupported
    THEN WRaise(InErrorState(st), "WriterError")
    ELSE LET init == st.writer.schema = <<>>
             schema == IF init THEN infer_schema(record) ELSE st.writer.schema
             \* pq.ParquetWriter(self._temp_file.name, schema) creates the file anew
             st1 == IF init
                    THEN [st EXCEPT !.writer.schema = schema,
                                    !.writer.writer = "ParquetWriter",
                                    !.fs.temp = [exists |-> TRUE, data |-> <<>>,
                                                 parquet |-> "open", schema |-> schema]]
                    ELSE st
         IN IF init /\ io = "fail"
            THEN WRaise(InErrorState([st EXCEPT !.writer.schema = schema]), "WriterError")
            ELSE IF ~table_fits(schema, record, cast_ok)
            THEN WRaise(InErrorState(st1), "WriterError")
            ELSE IF st1.writer.writer = "None" \/ io = "fail"
            THEN WRaise(InErrorState(st1), "WriterError")
            ELSE WDone([st1 EXCEPT !.fs.temp.data = Append(@, parquet_row(schema, record))])

\* writer.write(record), by the class of the writer
write(st, record, io, cast_ok) ==
    CASE st.writer.kind = "jsonl" -> jsonl_write(st, record, io)
      [] st.writer.kind = "ion" -> ion_write(st, record, io)
      [] st.writer.kind = "csv" -> csv_write(st, record, io)
      [] st.writer.kind = "parquet" -> parquet_write(st, record, io, cast_ok)

\* _create_writer, by the class of the writer
create_writer(kind) == IF kind = "csv" THEN "csv.writer" ELSE "None"

\* the schema of the empty file ParquetWriter._close_writer creates when no record was written
PlaceholderSchema == <<<<"record_type", "string">>, <<"system_id", "int64">>>>

\* _close_writer, by the class of the writer
close_writer(st, io) ==
    IF st.writer.kind # "parquet" THEN handle_flush(st, io)
    ELSE IF io = "fail" /\ (st.writer.writer # "None" \/ ~st.writer.error_state)
    THEN WRaise(InErrorState(st), "WriterError")
    ELSE IF st.writer.writer # "None"
    THEN WDone([st EXCEPT !.fs.temp.parquet = "closed"])
    ELSE IF ~st.writer.error_state
    THEN WDone([st EXCEPT !.fs.temp = [exists |-> TRUE, data |-> <<>>, parquet |-> "closed",
                                       schema |-> PlaceholderSchema]])
    ELSE WDone(st)

\* __exit__, first part (writer.py 42-47): close the format-specific writer if there is one
exit_close(st, io) ==
    IF st.writer.writer # "None"
    THEN as_writer_error(close_writer(st, io))
    ELSE WDone(st)

\* a variant of exit_finalize that promotes the temporary file whatever exc_type is
exit_finalize_ignoring_exc_type(st, exc_type, io) ==
    IF st.writer.temp_file = "None" THEN WDone(st)
    ELSE IF io = "fail" THEN WRaise(InErrorState(st), "WriterError")
    ELSE WDone([st EXCEPT !.fs.final = st.fs.temp, !.fs.temp = Absent])

\* __exit__, second part (writer.py 49-65): promote the temporary file, or remove it
exit_finalize(st, exc_type, io) ==
    IF st.writer.temp_file = "None" THEN WDone(st)
    ELSE IF exc_type = "None"
    THEN IF io = "fail"
         THEN WRaise(InErrorState(st), "WriterError")
         ELSE WDone([st EXCEPT !.fs.final = st.fs.temp, !.fs.temp = Absent])
    ELSE IF io = "fail" THEN WDone(st)
         ELSE WDone([st EXCEPT !.fs.temp = Absent])

\* a variant of exit_finally that also resets the error state for the next use of the writer
exit_finally_clearing_error_state(st, renamed) ==
    LET st1 == IF renamed THEN [st EXCEPT !.fs.final.data = @ \o st.buf]
               ELSE IF st.fs.temp.exists THEN [st EXCEPT !.fs.temp.data = @ \o st.buf]
               ELSE st
    IN [st1 EXCEPT !.buf = <<>>, !.writer.temp_file = "None", !.writer.temp_dir = "None",
                   !.writer.writer = "None", !.writer.error_state = FALSE]

\* __exit__, the finally clause (writer.py 66-68): the handle is dropped, which closes it and
\* writes what it still buffers to the file it was opened on, wherever that file now is
exit_finally(st, renamed) ==
    LET st1 == IF renamed THEN [st EXCEPT !.fs.final.data = @ \o st.buf]
               ELSE IF st.fs.temp.exists THEN [st EXCEPT !.fs.temp.data = @ \o st.buf]
               ELSE st
    IN [st1 EXCEPT !.buf = <<>>, !.writer.temp_file = "None", !.writer.temp_dir = "None",
                   !.writer.writer = "None"]

NoTx == [n |-> 0, state |-> "none", pre |-> Absent, accepted |-> <<>>, written |-> <<>>,
         calls |-> 0,
         writes |-> 0, failed |-> FALSE, exc |-> "None", renamed |-> FALSE,
         exit_raised |-> FALSE]

Here == WState(writer, fs, buf)
Becomes(st) == writer' = st.writer /\ fs' = st.fs /\ buf' = st.buf

WriterInit ==
    /\ \E kind \in Kinds : writer = NewWriterObject(kind)
    /\ fs = [final |-> Absent, temp |-> Absent, leftover |-> 0]
    /\ buf = <<>>
    /\ wpc = "out"
    /\ wres = "None"
    /\ tx = NoTx
    /\ ParserIdle

\* a new writer object is constructed for the same destination path
NewWriter ==
    /\ UNCHANGED pvars
    /\ wpc = "out"
    /\ tx.n > 0
    /\ tx.n < MaxTx
    /\ \E kind \in Kinds : writer' = NewWriterObject(kind)
    /\ wres' = "None"
    /\ tx' = [NoTx EXCEPT !.n = tx.n]
    /\ UNCHANGED <<fs, buf, wpc>>

\* "with writer:" - __enter__ (writer.py 27-37)
Enter ==
    /\ UNCHANGED pvars
    /\ wpc = "out"
    /\ tx.n < MaxTx
    /\ \E io \in {"ok", "fail"} :
        IF writer.error_state
        THEN /\ wres' = "WriterError"
             /\ tx' = [tx EXCEPT !.n = @ + 1]
             /\ UNCHANGED <<writer, fs, buf, wpc>>
        ELSE IF io = "fail"
        THEN /\ wres' = "OSError"
             /\ tx' = [tx EXCEPT !.n = @ + 1]
             /\ UNCHANGED <<writer, fs, buf, wpc>>
        ELSE /\ writer' = [writer EXCEPT !.temp_file = "open",
                                         !.temp_dir = named_temporary_file_dir("None"),
                                         !.writer = create_writer(writer.kind)]
             /\ fs' = [fs EXCEPT !.temp = EmptyFile,
                                 !.leftover = @ + (IF fs.temp.exists THEN 1 ELSE 0)]
             /\ buf' = <<>>
             /\ wpc' = "body"
             /\ wres' = "ok"
             /\ tx' = [NoTx EXCEPT !.n = tx.n + 1, !.state = "open", !.pre = fs.final]

\* the units a successful write added to the output
Added(before, after) ==
    LET old == before.fs.temp.data \o before.buf
        new == after.fs.temp.data \o after.buf
    IN IF after.fs.temp.parquet = "open" /\ before.fs.temp.parquet = "no" THEN new
       ELSE SubSeq(new, Len(old) + 1, Len(new))

\* writer.write(record) inside the with-block; a WriterError is caught there or leaves the block
Write ==
    /\ UNCHANGED pvars
    /\ wpc = "body"
    /\ tx.calls < MaxWrites
    /\ \E record \in Records, io \in IoOutcomes, cast_ok \in BOOLEAN, caught \in BOOLEAN :
        LET r == write(Here, record, io, cast_ok) IN
        /\ Becomes(r.st)
        /\ wres' = IF r.exc = "None" THEN "ok" ELSE r.exc
        /\ IF r.exc = "None"
           THEN /\ tx' = [tx EXCEPT !.calls = @ + 1, !.writes = @ + 1,
                                    !.accepted = @ \o Added(Here, r.st),
                                    !.written = Append(@, record)]
                /\ wpc' = "body"
           ELSE /\ tx' = [tx EXCEPT !.calls = @ + 1, !.failed = TRUE,
                                    !.exc = IF caught THEN "None" ELSE r.exc]
                /\ wpc' = IF caught THEN "body" ELSE "exit_close"

\* writer.write(record) outside any with-block
WriteOutside ==
    /\ UNCHANGED pvars
    /\ wpc = "out"
    /\ ~writer.error_state
    /\ \E record \in Records :
        LET r == write(Here, record, "ok", TRUE) IN
        /\ Becomes(r.st)
        /\ wres' = r.exc
    /\ UNCHANGED <<wpc, tx>>

\* the with-block is left normally
LeaveNormally ==
    /\ UNCHANGED pvars
    /\ wpc = "body"
    /\ wpc' = "exit_close"
    /\ UNCHANGED <<writer, fs, buf, wres, tx>>

\* the with-block is left by an exception of its body
BodyRaises ==
    /\ UNCHANGED pvars
    /\ wpc = "body"
    /\ wpc' = "exit_close"
    /\ tx' = [tx EXCEPT !.exc = "Exception"]
    /\ UNCHANGED <<writer, fs, buf, wres>>

\* __exit__: close the format-specific writer
ExitClose ==
    /\ UNCHANGED pvars
    /\ wpc = "exit_close"
    /\ \E io \in {"ok", "fail"} :
        LET r == exit_close(Here, io) IN
        /\ Becomes(r.st)
        /\ IF r.exc = "None"
           THEN wpc' = "exit_finalize" /\ UNCHANGED <<wres, tx>>
           ELSE /\ wpc' = "exit_finally"
                /\ wres' = r.exc
                /\ tx' = [tx EXCEPT !.exit_raised = TRUE]

\* __exit__: rename the temporary file to the final path, or unlink it
ExitFinalize ==
    /\ UNCHANGED pvars
    /\ wpc = "exit_finalize"
    /\ \E io \in {"ok", "fail"} :
        LET r == exit_finalize(Here, tx.exc, io) IN
        /\ Becomes(r.st)
        /\ wpc' = "exit_finally"
        /\ wres' = IF r.exc = "None" THEN wres ELSE r.exc
        /\ tx' = [tx EXCEPT !.renamed = (tx.exc = "None" /\ r.exc = "None"
                                            /\ writer.temp_file # "None"),
                            !.exit_raised = (r.exc # "None")]

\* __exit__: the finally clause; the with statement is over
ExitFinally ==
    /\ UNCHANGED pvars
    /\ wpc = "exit_finally"
    /\ Becomes(exit_finally(Here, tx.renamed))
    /\ wpc' = "out"
    /\ wres' = IF tx.exit_raised THEN wres ELSE IF tx.exc # "None" THEN tx.exc ELSE "ok"
    /\ tx' = [tx EXCEPT !.state = "closed"]

WriterNext ==
    \/ NewWriter
    \/ Enter
    \/ Write
    \/ WriteOutside
    \/ LeaveNormally
    \/ BodyRaises
    \/ ExitClose
    \/ ExitFinalize
    \/ ExitFinally

(***************************************************************************)
(* The specifications: the parser on its own, the writer on its own.       *)
(***************************************************************************)
vars == <<parser, pc, result, obs, writer, fs, buf, wpc, wres, tx>>

ParserSpec == ParserInit /\ [][ParserNext]_vars
\* the consumer's loop keeps calling next() and a call keeps running until it returns or raises
ParserFairSpec == ParserInit /\ [][ParserNext]_vars /\ WF_vars(ParserNext)
\* the parser on a stream that delivers its text in chunks
ChunkedParserSpec == ChunkedInit /\ [][ParserNext]_vars
WriterSpec == WriterInit /\ [][WriterNext]_vars

(***************************************************************************)
(* Properties of the writer.                                               *)
(***************************************************************************)

\* C1: if a write call failed during the transaction, the transaction ends on its abort
\* branch however the with-block is left: the temporary file is not promoted and the
\* destination is as it was when the transaction was opened.
C1_FailedWriteForcesAbort ==
    (tx.state = "closed" /\ tx.failed) => (~tx.renamed /\ fs.final = tx.pre)

\* C2: once an exception leaves the with-block, the destination stays exactly as it was
\* when the transaction was opened, through __exit__ and after it.
C2_ExceptionLeavesDestinationUntouched ==
    (tx.state \in {"open", "closed"} /\ tx.exc # "None") => fs.final = tx.pre

\* witness of C2: a block that wrote a record and was left by an exception, over a
\* destination that an earlier transaction had committed with content
C2_Witness ==
    /\ tx.state = "closed" /\ tx.exc = "Exception" /\ tx.writes >= 1
    /\ tx.pre.exists /\ Len(tx.pre.data) >= 1
    /\ fs.final = tx.pre

\* C5: at the moment the temporary file has been renamed to the final path (before the
\* finally clause of __exit__ runs), the final path holds everything the successful
\* write calls of the transaction accepted.
C5_CompleteWhenRenamed ==
    (wpc = "exit_finally" /\ tx.renamed /\ ~tx.failed)
        => (fs.final.data = tx.accepted /\ fs.final.parquet # "open")

\* C6: a ParquetWriter transaction opened and closed normally with no write call commits
\* a readable, empty Parquet file with the placeholder schema.
C6_EmptyParquetFileIsValid ==
    (tx.state = "closed" /\ writer.kind = "parquet" /\ tx.calls = 0 /\ tx.exc = "None"
        /\ ~tx.exit_raised)
      => /\ fs.final.exists
         /\ fs.final.parquet = "closed"
         /\ fs.final.schema = PlaceholderSchema
         /\ fs.final.data = <<>>

(***************************************************************************)
(* Properties of the parser.                                               *)
(***************************************************************************)

\* C3: a ParseError is terminal: once a call to next() has raised ParseError, no later
\* call on the same parser returns a Record.
C3_ParseErrorTerminal ==
    (pc = "idle" /\ result.kind = "Record") => obs.nerr = 0

\* C4: a Record completed by a terminator has as many fields as delimiters were consumed
\* for it, plus one; a limit error names the index of the offending field by the number of
\* its consumed fields.  (Stated for runs in which no earlier ParseError was raised.)
C4_FieldCountIsDelimitersPlusOne ==
    /\ (pc = "idle" /\ result.kind = "Record" /\ obs.nerr = 0 /\ ~obs.at_eof)
          => Len(result.fields) = obs.delims + 1
    /\ (pc = "idle" /\ result.kind = "ParseError" /\ obs.nerr = 1
            /\ result.expected = "field length <= MAX_FIELD_LENGTH")
          => Len(result.consumed_fields) = obs.delims
    /\ (pc = "idle" /\ result.kind = "ParseError" /\ obs.nerr = 1
            /\ result.expected = "field count <= MAX_FIELDS")
          => Len(result.consumed_fields) = MAX_FIELDS

\* a pass of the loop that meets the end of the stream with the parser in state st
EofPass(st) == pc = "loop" /\ AtEof(parser) /\ parser.state = st

\* C7: when the stream ends in AFTER_PIPE, next() returns the Record of the fields
\* accumulated so far plus one trailing empty field.
C7_EofAfterDelimiterEmitsRecord ==
    [][EofPass("AFTER_PIPE") =>
          (result'.kind = "Record" /\ result'.fields = Append(parser.fields, <<>>))]_pvars

\* C8: the end of the stream raises StopIteration if and only if the parser is in START
\* with no partial record; in every other state the call returns a Record or raises a
\* ParseError.
C8_CleanEndOnlyInStart ==
    [][(pc = "loop" /\ AtEof(parser)) =>
          /\ result'.kind \in {"StopIteration", "Record", "ParseError"}
          /\ (result'.kind = "StopIteration")
                <=> (parser.state = "START" /\ parser.fields = <<>>
                        /\ parser.current_field = <<>>)]_pvars

\* the last call met the end of the stream in state FIELD and returned a Record
EofFieldRecordReturned ==
    pc = "idle" /\ obs.at_eof /\ obs.from = "FIELD" /\ result.kind = "Record"

C10_FieldLengthErrorAt1025 ==
    (pc = "idle" /\ result.kind = "ParseError"
        /\ result.expected = "field length <= MAX_FIELD_LENGTH")
      => /\ result.received = MAX_FIELD_LENGTH + 1
         /\ Len(result.partial_field) = MAX_FIELD_LENGTH
         /\ result.partial_field = parser.current_field
         /\ result.consumed_fields = parser.fields

\* C11: a record of MAX_FIELDS fields is returned; every field-count ParseError carries
\* exactly the first MAX_FIELDS fields of the record as its consumed fields; and no Record
\* returned has more than MAX_FIELDS fields or no field at all.
C11_FieldCountLimit ==
    /\ []((pc = "idle" /\ result.kind = "Record")
            => (Len(result.fields) >= 1 /\ Len(result.fields) <= MAX_FIELDS))
    /\ []((pc = "idle" /\ result.kind = "ParseError"
              /\ result.expected = "field count <= MAX_FIELDS")
            => (/\ Len(result.consumed_fields) = MAX_FIELDS
                /\ result.consumed_fields = SubSeq(parser.fields, 1, MAX_FIELDS)))
    /\ [][(pc = "loop" /\ parser.state = "FIELD" /\ parser.field_count = MAX_FIELDS - 1
              /\ obs.nerr = 0 /\ ~AtEof(parser) /\ parser.buffer[parser.pos + 1] = LF)
            => (result'.kind = "Record" /\ Len(result'.fields) = MAX_FIELDS)]_pvars

\* C12: every field of every Record returned has at most MAX_FIELD_LENGTH characters.
C12_FieldLengthBounded ==
    (pc = "idle" /\ result.kind = "Record")
      => \A i \in 1..Len(result.fields) : Len(result.fields[i]) <= MAX_FIELD_LENGTH

\* C13: no field of any Record returned contains the delimiter character.
C13_NoDelimiterInField ==
    (pc = "idle" /\ result.kind = "Record")
      => \A i \in 1..Len(result.fields) :
            \A j \in 1..Len(result.fields[i]) : result.fields[i][j] # PIPE

\* the text the parser reads from, and the pass that reads character c as its next character
InputText(p) == IF p.pos < Len(p.buffer) \/ p.stream = <<>> THEN p.buffer ELSE Head(p.stream)
NextPos(p) == IF p.pos < Len(p.buffer) \/ p.stream = <<>> THEN p.pos + 1 ELSE 1
Reads(c) == pc = "loop" /\ ~AtEof(parser) /\ InputText(parser)[NextPos(parser)] = c

\* C14: in state START a delimiter emits an empty first field and moves the parser to
\* AFTER_PIPE, and the call goes on reading the line.
C14_LeadingDelimiterEmitsEmptyField ==
    [][(Reads(PIPE) /\ parser.state = "START") =>
          /\ pc' = "loop"
          /\ parser'.state = "AFTER_PIPE"
          /\ parser'.fields = Append(parser.fields, <<>>)]_pvars

\* a line that consists of a delimiter and a line feed only is about to be read in START
DelimiterOnlyLine ==
    /\ Reads(PIPE) /\ parser.state = "START"
    /\ LET t == InputText(parser)
           i == NextPos(parser)
       IN /\ i + 1 <= Len(t) /\ t[i + 1] = LF
          /\ i = 1 \/ t[i - 1] = LF

C16_EmptyFieldPerDelimiter ==
    /\ [][(Reads(PIPE) /\ parser.state = "AFTER_PIPE") =>
            /\ pc' = "loop"
            /\ parser'.state = "AFTER_PIPE"
            /\ parser'.fields = Append(parser.fields, <<>>)]_pvars
    /\ [][(Reads(LF) /\ parser.state = "AFTER_PIPE") =>
            /\ pc' = "idle"
            /\ result' = Record(parser.record_start_line, Append(parser.fields, <<>>))]_pvars

\* C16 as amended: the same while the record has fewer than MAX_FIELDS fields; the empty
\* field that would be field MAX_FIELDS + 1 raises the field-count ParseError instead.
C16_EmptyFieldPerDelimiterWithinLimit ==
    /\ [][(Reads(PIPE) /\ parser.state = "AFTER_PIPE") =>
            IF parser.field_count < MAX_FIELDS
            THEN /\ pc' = "loop"
                 /\ parser'.state = "AFTER_PIPE"
                 /\ parser'.fields = Append(parser.fields, <<>>)
            ELSE /\ pc' = "idle"
                 /\ result'.kind = "ParseError"
                 /\ result'.expected = "field count <= MAX_FIELDS"]_pvars
    /\ [][(Reads(LF) /\ parser.state = "AFTER_PIPE") =>
            IF parser.field_count < MAX_FIELDS
            THEN /\ pc' = "idle"
                 /\ result' = Record(parser.record_start_line, Append(parser.fields, <<>>))
            ELSE /\ pc' = "idle"
                 /\ result'.kind = "ParseError"
                 /\ result'.expected = "field count <= MAX_FIELDS"]_pvars

\* witness of C16: 'a||' and a line feed gave the Record ['a', '', '']
C16_Witness ==
    /\ pc = "idle" /\ obs.calls = 1 /\ obs.from = "AFTER_PIPE"
    /\ parser.buffer = <<ORD, PIPE, PIPE, LF>>
    /\ result = Record(1, <<<<ORD>>, <<>>, <<>>>>)

\* the text b has carriage returns, each directly before a line feed, and no other line feed
CrLfTerminated(b) ==
    /\ \E i \in 1..Len(b) : b[i] = CR
    /\ \A i \in 1..Len(b) :
          /\ b[i] = CR => (i < Len(b) /\ b[i + 1] = LF)
          /\ b[i] = LF => (i > 1 /\ b[i - 1] = CR)
\* the same text with its lines terminated by a line feed alone
LfForm(b) == SelectSeq(b, LAMBDA c : c # CR)

\* what reading CR LF, and what reading LF alone, makes of parser state p
after_cr_lf(p) ==
    LET a == on_char(p, CR) IN IF a.out.kind = "none" THEN on_char(a.p, LF) ELSE a
after_lf(p) == on_char(p, LF)

\* C17: on a text whose lines end in CR LF, each call of next() that returns a Record returns
\* the Record (same fields, same line number) that the same call returns on the text with
\* its lines ended by LF alone, and returns one whenever that call does; and wherever a line
\* may end, CR LF and LF alone complete the same Record and leave the parser in the same state.
C17_CrLfSameAsLf ==
    /\ (pc = "idle" /\ obs.calls >= 1 /\ Len(parser.buffer) <= 2 * (MaxInputLen + 1)
          /\ CrLfTerminated(parser.buffer))
        => LET o == nth_outcome(PullParser(AsStream(LfForm(parser.buffer))), obs.calls)
           IN (result.kind = "Record" \/ o.kind = "Record") => result = o
    /\ (pc = "loop" /\ parser.state \in {"START", "FIELD", "AFTER_PIPE"})
        => LET a == after_cr_lf(parser)
               b == after_lf(parser)
           IN (a.out.kind = "Record" \/ b.out.kind = "Record") => a = b

(***************************************************************************)
(* Further properties of the writer.                                       *)
(***************************************************************************)

\* C18: after a write call has failed inside an open transaction, every later write call of
\* that transaction raises WriterError and adds nothing to the temporary file, neither to
\* the file nor to what its handle buffers.
C18_WritesAfterFailureRejected ==
    [][(wpc = "body" /\ tx.failed /\ tx'.calls = tx.calls + 1) =>
          /\ wres' = "WriterError"
          /\ fs' = fs
          /\ buf' = buf
          /\ tx'.accepted = tx.accepted]_wvars

\* witness of C18: a transaction still open in which a write failed and the write after it
\* was rejected
C18_Witness ==
    /\ wpc = "body" /\ tx.state = "open" /\ tx.failed
    /\ tx.calls = 2 /\ tx.writes = 0
    /\ wres = "WriterError" /\ writer.error_state

\* C19: the error state of a writer instance is never cleared, and while it is set every
\* attempt to enter the writer raises WriterError, allocates no temporary file and opens no
\* transaction, so the file system stays as it is.
C19_ErrorStatePermanent ==
    [][NewWriter \/
       (writer.error_state =>
          /\ writer'.error_state
          /\ wpc = "out" =>
                /\ wpc' = "out"
                /\ fs' = fs
                /\ writer'.temp_file = "None"
                /\ tx'.n # tx.n => wres' = "WriterError")]_wvars

\* witness of C19: a transaction with a failed, caught write was closed normally, and the
\* next attempt to enter the same writer raised WriterError
C19_Witness ==
    /\ wpc = "out" /\ writer.error_state /\ writer.temp_file = "None"
    /\ tx.state = "closed" /\ tx.failed /\ tx.exc = "None" /\ ~tx.exit_raised
    /\ tx.n = 2
    /\ wres = "WriterError"

\* C20: a writer instance opens no transaction after its transaction was committed or aborted,
\* and a write call made after that raises WriterError and writes nothing.
C20_OneTransactionPerInstance ==
    /\ [][(wpc = "out" /\ wpc' = "body") => tx.state # "closed"]_wvars
    /\ [][(wpc = "out" /\ tx.state = "closed" /\ tx' = tx) =>
            (wres' = "WriterError" /\ fs' = fs /\ buf' = buf)]_wvars

(***************************************************************************)
(* Line and column tracking of the parser.                                 *)
(***************************************************************************)

\* the number of line feeds among the characters consumed so far
LineFeedsConsumed == Cardinality({i \in 1..parser.pos : parser.buffer[i] = LF})

\* C29: the line counter never decreases and has been incremented exactly once for every
\* line feed consumed, whatever the state in which the line feed was read; a Record returned
\* at a line feed carries the number of the line that this line feed ends.
C29_LineCounterCountsLineFeeds ==
    /\ [](parser.line = 1 + LineFeedsConsumed)
    /\ [][parser'.line >= parser.line]_pvars
    /\ []((pc = "idle" /\ result.kind = "Record" /\ ~obs.at_eof
              /\ result.line = parser.record_start_line
              /\ \A i \in 1..Len(result.fields) :
                    \A j \in 1..Len(result.fields[i]) : result.fields[i][j] # LF)
            => result.line = LineFeedsConsumed)

\* C30 as stated: the column counter is 1 after a line feed and one more after every other
\* character, and every ParseError carries the value of the counter at the time it is raised.
C30_ColumnVerbatim ==
    /\ [][Reads(LF) => parser'.column = 1]_pvars
    /\ [][(pc = "loop" /\ ~AtEof(parser) /\ ~Reads(LF)) =>
            parser'.column = parser.column + 1]_pvars
    /\ [][(pc = "loop" /\ pc' = "idle" /\ result'.kind = "ParseError") =>
            result'.column = parser'.column]_pvars

\* C30 as amended: the same counter; a field-length ParseError carries the counter's value
\* less one, which is the column of the character that exceeds the limit, and every other
\* ParseError carries the counter's value.
C30_ColumnOfError ==
    /\ [][Reads(LF) => parser'.column = 1]_pvars
    /\ [][(pc = "loop" /\ ~AtEof(parser) /\ ~Reads(LF)) =>
            parser'.column = parser.column + 1]_pvars
    /\ [][(pc = "loop" /\ pc' = "idle" /\ result'.kind = "ParseError") =>
            result'.column = IF result'.expected = "field length <= MAX_FIELD_LENGTH"
                             THEN parser'.column - 1
                             ELSE parser'.column]_pvars

\* witness of C30: 'a|' followed by MAX_FIELD_LENGTH + 1 characters: the field-length error
\* names the column of the last of them
C30_Witness ==
    /\ pc = "idle" /\ obs.calls = 1 /\ result.kind = "ParseError"
    /\ result.expected = "field length <= MAX_FIELD_LENGTH"
    /\ Len(result.consumed_fields) = 1
    /\ parser.pos = 2 + MAX_FIELD_LENGTH + 1
    /\ result.column = 2 + MAX_FIELD_LENGTH + 1
    /\ parser.column = result.column + 1

(***************************************************************************)
(* The transaction protocol and the content of the output.                 *)
(***************************************************************************)

\* C21: once __exit__ has returned or raised, the temporary file of the transaction has been
\* renamed to the destination or deleted; none is left behind.
C21_TempFileNeverLeftBehind ==
    tx.state = "closed" => (~fs.temp.exists /\ fs.leftover = 0)

\* C22: between open and close the final path stays as it was at open, whatever the write
\* calls do; the final path changes only inside __exit__.
C22_WritesLeaveDestinationAlone ==
    /\ []((tx.state = "open" /\ wpc \in {"body", "exit_close"}) => fs.final = tx.pre)
    /\ [][fs'.final # fs.final => wpc \in {"exit_finalize", "exit_finally"}]_wvars

\* witness of C22: two records were written, part of them already in the temporary file, over
\* a destination committed earlier, and the destination is as it was
C22_Witness ==
    /\ wpc = "body" /\ tx.state = "open" /\ tx.writes = 2
    /\ fs.temp.data # <<>>
    /\ tx.pre.exists /\ Len(tx.pre.data) >= 1
    /\ fs.final = tx.pre

\* C23: the temporary file of an open writer is in the directory of its final path.
C23_TempFileInDestinationDirectory ==
    writer.temp_file # "None" => writer.temp_dir = FinalDir

\* what the destination holds after the records recs were written, one unit per record in
\* the order written; CSV: the header of the first record, then the rows
ExpectedUnits(kind, recs) ==
    CASE kind = "jsonl" -> [i \in 1..Len(recs) |-> serialize_record(recs[i])]
      [] kind = "ion" -> [i \in 1..Len(recs) |-> convert_to_ion(recs[i])]
      [] kind = "csv" ->
            IF recs = <<>> THEN <<>>
            ELSE <<[fmt |-> "csv_header", cells |-> Keys(recs[1])]>>
                    \o [i \in 1..Len(recs) |-> csv_row(Keys(recs[1]), recs[i])]
      [] kind = "parquet" ->
            [i \in 1..Len(recs) |-> parquet_row(infer_schema(recs[1]), recs[i])]

\* C24: after a transaction whose write calls all succeeded and whose with-block was left
\* normally, the destination exists and holds exactly the records written, in order (CSV: one
\* header row, then the rows; Parquet: a closed file of the rows).
C24_DestinationHoldsRecordsWritten ==
    (tx.state = "closed" /\ ~tx.failed /\ tx.exc = "None" /\ ~tx.exit_raised)
      => /\ fs.final.exists
         /\ fs.final.data = ExpectedUnits(writer.kind, tx.written)
         /\ (writer.kind = "parquet" /\ tx.writes >= 1) => fs.final.parquet = "closed"

\* C25: after the first record of a ParquetWriter transaction was written, no write call
\* changes the schema, of the writer or of the file; a write either adds one row of exactly
\* the schema's columns or raises WriterError.
C25_ParquetSchemaFixed ==
    [][(writer.kind = "parquet" /\ wpc = "body" /\ tx.writes >= 1
            /\ tx'.calls = tx.calls + 1) =>
          /\ writer'.schema = writer.schema
          /\ fs'.temp.schema = fs.temp.schema
          /\ \/ wres' = "WriterError" /\ fs'.temp.data = fs.temp.data
             \/ /\ wres' = "ok"
                /\ Len(fs'.temp.data) = Len(fs.temp.data) + 1
                /\ Len(fs'.temp.data[Len(fs'.temp.data)].cells) = Len(writer.schema)]_wvars

\* C26: what a CSVWriter transaction has written so far is one header row, the keys of the
\* first record written in their order, followed by one row per record rendered against
\* that header.
C26_CsvHeaderOnceAndFixed ==
    (writer.kind = "csv" /\ tx.state = "open" /\ wpc = "body" /\ tx.writes >= 1)
      => fs.temp.data \o buf = ExpectedUnits("csv", tx.written)

\* C27: every failure of a writer operation surfaces as WriterError; the only other exception
\* that leaves a with statement is the one its body raised.
C27_OnlyWriterError ==
    \/ wres \in {"None", "ok", "WriterError"}
    \/ wres = "Exception" /\ tx.exc = "Exception"

\* the column type the first record's value of type t gives: integer, floating point, date,
\* else text
InferredColumnType(t) ==
    IF t \in {"int", "bool"} THEN "int64"
    ELSE IF t = "float" THEN "double"
    ELSE IF t = "date" THEN "date32"
    ELSE "string"

\* C28: the schema a ParquetWriter has after its first record was written has one column per
\* key of that record, typed by the record's value: integer, floating point, date, else text.
C28_ParquetTypeInference ==
    (writer.kind = "parquet" /\ tx.state = "open" /\ wpc = "body" /\ tx.writes = 1)
      => writer.schema =
            [i \in 1..Len(tx.written[1].items) |->
                <<tx.written[1].items[i][1], InferredColumnType(tx.written[1].items[i][2])>>]

(***************************************************************************)
(* Properties of the parser's bookkeeping, chunking and termination.       *)
(***************************************************************************)

\* C37: in every state field_count is the number of fields accumulated for the record in
\* progress and field_length the number of characters in the current field buffer; and when
\* next() has returned a Record the parser is in START with no accumulated fields, a zero
\* field count and an empty field buffer.
C37_CountersTrackBuffers ==
    /\ parser.field_count = Len(parser.fields)
    /\ parser.field_length = Len(parser.current_field)
    /\ (pc = "idle" /\ result.kind = "Record")
        => /\ parser.state = "START"
           /\ parser.fields = <<>>
           /\ parser.field_count = 0
           /\ parser.current_field = <<>>
           /\ parser.field_length = 0

\* a second Record of two fields was returned while input remains
C37_Witness ==
    /\ pc = "idle" /\ obs.calls = 2 /\ result.kind = "Record" /\ Len(result.fields) = 2
    /\ parser.state = "START" /\ parser.field_count = 0

\* the number of characters of the input the parser has not consumed yet
RECURSIVE TotalLen(_)
TotalLen(stream) == IF stream = <<>> THEN 0 ELSE Len(Head(stream)) + TotalLen(Tail(stream))
Unread(p) == (Len(p.buffer) - p.pos) + TotalLen(p.stream)

\* C38: every pass of a call, and so every call, consumes one more character or meets the
\* end of the stream and ends the call there; no call completes without such a pass; a
\* consumer that keeps calling next() gets StopIteration or a ParseError after finitely many
\* calls; and once StopIteration was raised every later call raises StopIteration.
C38_IterationTerminates ==
    /\ [][pc = "loop" => \/ Unread(parser') = Unread(parser) - 1
                         \/ AtEof(parser) /\ pc' = "idle" /\ Unread(parser') = 0]_pvars
    /\ [][obs'.calls = obs.calls + 1 => pc = "loop"]_pvars
    /\ [][result.kind = "StopIteration" => result'.kind = "StopIteration"]_pvars
    /\ <>(pc = "idle" /\ result.kind \in {"StopIteration", "ParseError"})

\* two Records were returned, then StopIteration, and StopIteration again
C38_Witness ==
    /\ pc = "idle" /\ obs.calls = 4 /\ obs.nerr = 0 /\ result.kind = "StopIteration"
    /\ Unread(parser) = 0 /\ parser.line = 3

\* C36: whatever the partition of the input into chunks, every call of next() gives the
\* outcome that the same call gives when the whole input is delivered as one chunk.
C36_ChunkingInvisible ==
    (pc = "idle" /\ obs.calls >= 1)
      => result = nth_outcome(PullParser(AsStream(obs.text)), obs.calls)

\* the text 'a' CR LF delivered with the line feed in a chunk of its own: the split falls
\* between the carriage return and the line feed, and the record was returned
C36_Witness ==
    /\ pc = "idle" /\ obs.calls = 1 /\ obs.text = <<ORD, CR, LF>>
    /\ parser.buffer = <<LF>> /\ parser.pos = 1 /\ parser.stream = <<>>
    /\ result = Record(1, <<<<ORD>>>>)

(***************************************************************************)
(* Properties of writes outside a transaction and of committed CSV files.  *)
(***************************************************************************)

\* C39: a write call made while no transaction is open raises WriterError, leaves the files
\* and the handle's buffer as they are and puts the writer into the error state; and an
\* attempt to open a writer that is in the error state fails with WriterError and opens
\* nothing.
C39_WriteOutsideTransaction ==
    /\ [][(wpc = "out" /\ wpc' = "out" /\ tx' = tx /\ wres' # "None")
            => /\ wres' = "WriterError"
               /\ fs' = fs /\ buf' = buf
               /\ writer'.error_state
               /\ writer'.temp_file = "None"]_wvars
    /\ [][(wpc = "out" /\ writer.error_state /\ tx'.n = tx.n + 1)
            => /\ wres' = "WriterError"
               /\ wpc' = "out"
               /\ writer' = writer /\ fs' = fs]_wvars

\* a writer that never held a transaction is in the error state after a write call, and an
\* attempt to open it was made and ended with WriterError
C39_Witness ==
    /\ wpc = "out" /\ tx = [NoTx EXCEPT !.n = 1]
    /\ writer.error_state /\ writer.temp_file = "None" /\ wres = "WriterError"
    /\ fs = [final |-> Absent, temp |-> Absent, leftover |-> 0]

\* C40: a CSV file committed by a transaction that wrote at least one record holds exactly
\* one header row, at its beginning, followed by one row per record written.
C40_CommittedCsvHasOneHeader ==
    (writer.kind = "csv" /\ tx.state = "closed" /\ tx.renamed /\ tx.writes >= 1)
      => /\ Len(fs.final.data) = 1 + tx.writes
         /\ fs.final.data[1].fmt = "csv_header"
         /\ \A i \in 2..Len(fs.final.data) : fs.final.data[i].fmt = "csv_row"

(***************************************************************************)
(* The earlier writer revision (src/src/writer/writers.py).                *)
(*                                                                         *)
(* It uses the writer variables: writer is the object (kind, temp_file,    *)
(* success, records), fs the output path and the temporary file, wpc the   *)
(* position of the caller ("out", "body", "exit"), wres the outcome of the *)
(* last operation and tx the record of the with-block.                     *)
(***************************************************************************)
OldRecords == {RecA, RecB, RecObj}

\* AbstractWriter.__init__ with ParquetWriter.__init__ and CSVWriter.__init__
OldWriterObject(kind) == [kind |-> kind, temp_file |-> "None", success |-> FALSE, records |-> <<>>]

OldNoTx == [state |-> "none", written |-> <<>>, exc |-> "None"]

OldWriterInit ==
    /\ \E kind \in Kinds : writer = OldWriterObject(kind)
    /\ fs = [final |-> Absent, temp |-> Absent, leftover |-> 0]
    /\ buf = <<>>
    /\ wpc = "out"
    /\ wres = "None"
    /\ tx = OldNoTx
    /\ ParserIdle

\* __enter__: the temporary file is created next to the output path; JSONLWriter and
\* IonWriter open it again by name for writing text
OldEnter ==
    /\ UNCHANGED pvars
    /\ wpc = "out" /\ tx.state = "none"
    /\ writer' = [writer EXCEPT !.temp_file = "open"]
    /\ fs' = [fs EXCEPT !.temp = EmptyFile]
    /\ wpc' = "body"
    /\ wres' = "ok"
    /\ tx' = [OldNoTx EXCEPT !.state = "open"]
    /\ UNCHANGED buf

\* json.dump / ion_dump of a record: a value that cannot be serialized raises TypeError
old_line(kind, record) == [fmt |-> kind, cells |-> record.items]
old_serializable(record) == \A i \in 1..Len(record.items) : record.items[i][2] # "object"

\* write(record): JSONLWriter and IonWriter write one line to the temporary file,
\* ParquetWriter and CSVWriter keep the record in self.records
old_write(w, f, record) ==
    IF w.kind \in {"jsonl", "ion"}
    THEN IF old_serializable(record)
         THEN [writer |-> w, fs |-> [f EXCEPT !.temp.data = Append(@, old_line(w.kind, record))],
               exc |-> "None"]
         ELSE [writer |-> w, fs |-> f, exc |-> "TypeError"]
    ELSE [writer |-> [w EXCEPT !.records = Append(@, record)], fs |-> f, exc |-> "None"]

\* writer.write(record) inside the with-block; an exception of write leaves the block
OldWrite ==
    /\ UNCHANGED pvars
    /\ wpc = "body"
    /\ Len(tx.written) < MaxWrites
    /\ \E record \in OldRecords :
        LET r == old_write(writer, fs, record) IN
        /\ writer' = r.writer
        /\ fs' = r.fs
        /\ IF r.exc = "None"
           THEN /\ tx' = [tx EXCEPT !.written = Append(@, record)]
                /\ wpc' = "body"
                /\ wres' = "ok"
           ELSE /\ tx' = [tx EXCEPT !.exc = r.exc]
                /\ wpc' = "exit"
                /\ wres' = r.exc
    /\ UNCHANGED buf

\* the with-block is left normally
OldLeaveNormally ==
    /\ UNCHANGED pvars
    /\ wpc = "body"
    /\ wpc' = "exit"
    /\ UNCHANGED <<writer, fs, buf, wres, tx>>

\* the with-block is left by an exception of its body
OldBodyRaises ==
    /\ UNCHANGED pvars
    /\ wpc = "body"
    /\ wpc' = "exit"
    /\ tx' = [tx EXCEPT !.exc = "Exception"]
    /\ UNCHANGED <<writer, fs, buf, wres>>

\* __exit__: ParquetWriter and CSVWriter first write their records to the temporary file
\* (unless the body raised) and set success; then AbstractWriter.__exit__ closes the file and
\* replaces the output path by it if success is set and the body did not raise, else
\* removes it.  Nothing sets success for JSONLWriter and IonWriter.
old_exit(w, f, exc_type) ==
    LET tabular == w.kind \in {"parquet", "csv"}
        rows == [i \in 1..Len(w.records) |-> old_line(w.kind, w.records[i])]
        f1 == IF tabular /\ exc_type = "None" THEN [f EXCEPT !.temp.data = rows] ELSE f
        w1 == [w EXCEPT !.success = @ \/ tabular]
    IN IF w.kind = "parquet" /\ exc_type = "None"
          /\ \E i \in 1..Len(w.records) : ~old_serializable(w.records[i])
       THEN [writer |-> w, fs |-> f, exc |-> "ArrowInvalid"]
       ELSE IF w1.success /\ exc_type = "None"
       THEN [writer |-> w1, fs |-> [f1 EXCEPT !.final = f1.temp, !.temp = Absent], exc |-> exc_type]
       ELSE [writer |-> w1, fs |-> [f1 EXCEPT !.temp = Absent], exc |-> exc_type]

\* the with statement runs __exit__ and ends
OldExit ==
    /\ UNCHANGED pvars
    /\ wpc = "exit"
    /\ LET r == old_exit(writer, fs, tx.exc) IN
        /\ writer' = r.writer
        /\ fs' = r.fs
        /\ wres' = IF r.exc = "None" THEN "ok" ELSE r.exc
    /\ wpc' = "out"
    /\ tx' = [tx EXCEPT !.state = "closed"]
    /\ UNCHANGED buf

OldWriterNext ==
    \/ OldEnter
    \/ OldWrite
    \/ OldLeaveNormally
    \/ OldBodyRaises
    \/ OldExit

OldWriterSpec == OldWriterInit /\ [][OldWriterNext]_vars

\* C35: in the earlier revision, after a with-block of a JSONLWriter or IonWriter that made
\* N write calls and was left normally, the output path exists and holds exactly the N
\* lines of the records in write order.
C35_OldTextWritersPromote ==
    (writer.kind \in {"jsonl", "ion"} /\ tx.state = "closed" /\ tx.exc = "None")
      => /\ fs.final.exists
         /\ fs.final.data = [i \in 1..Len(tx.written) |-> old_line(writer.kind, tx.written[i])]
         /\ ~fs.temp.exists

(***************************************************************************)
(* The mappers (src/src/wdlp/mapper.py, src/src/wdlp/schema.py).           *)
(*                                                                         *)
(* A field of a Record is empty, or it holds a text that passes the        *)
(* coercion and the validation of the schema position it stands at (for    *)
(* the first position of an AM record: the text 'AM'), or a text that      *)
(* fails them.  One text stands for each of the two kinds.                 *)
(***************************************************************************)
EMPTY == <<>>
VALID == <<ORD>>
INVALID == <<"x">>
\* Python's None among field texts
NONE == <<"None">>

\* the field names of AMRecord and ENRecord in schema order, with the positions that are
\* coerced to int and to date
AMFields ==
    <<"record_type", "system_id", "uls_file_number", "ebf_number", "call_sign",
      "operator_class", "group_code", "region_code", "trustee_call_sign",
      "trustee_indicator", "physician_certification", "ve_signature",
      "systematic_call_sign_change", "vanity_call_sign_change", "vanity_relationship",
      "previous_call_sign", "previous_operator_class", "trustee_name">>
ENFields ==
    <<"record_type", "system_id", "uls_file_number", "ebf_number", "call_sign",
      "entity_type", "licensee_id", "entity_name", "first_name", "mi", "last_name",
      "suffix", "phone", "fax", "email", "street_address", "city", "state", "zip_code",
      "po_box", "attention_line", "sgin", "frn", "applicant_type_code",
      "applicant_type_code_other", "status_code", "status_date", "license_type",
      "linked_system_id", "linked_call_sign">>
SchemaFields(mapper_type) == IF mapper_type = "AM" THEN AMFields ELSE ENFields
IntFields == {"system_id", "region_code", "linked_system_id"}
DateFields == {"status_date"}

\* bound of the mapper specification: the longest record, one field longer than ENRecord
MaxRecordLen == 31

\* a variant of get_field for which a position beyond the end of the record is an error
get_field_beyond_end_raising(fields, index) ==
    IF index < Len(fields)
    THEN (IF fields[index + 1] # EMPTY THEN fields[index + 1] ELSE NONE)
    ELSE <<"IndexError">>

\* get_field(fields, index, default=None): the field at the 0-based index if there is one
\* and it is not empty, else None
get_field(fields, index) ==
    IF index < Len(fields) /\ fields[index + 1] # EMPTY THEN fields[index + 1] ELSE NONE

TypedRecord(values) == [kind |-> "TypedRecord", values |-> values]
MapperError(line) == [kind |-> "MapperError", line |-> line]

\* the values of all schema positions, and whether the coercions and the validation of the
\* model (int(...), the date parsing, AMRecord(...) / ENRecord(...)) accept them: None is
\* accepted everywhere, a text only if it is valid at its position
positional_values(mapper_type, fields) ==
    [i \in 1..Len(SchemaFields(mapper_type)) |-> get_field(fields, i - 1)]
values_accepted(values) == \A i \in 1..Len(values) : values[i] \in {NONE, VALID}

\* AMMapper.__call__: the record type and the field count are checked first; every
\* IndexError and ValueError (pydantic's ValidationError is one) becomes a MapperError
am_mapper(record) ==
    IF record.fields = <<>> \/ record.fields[1] # VALID THEN MapperError(record.line)
    ELSE IF Len(record.fields) < 2 THEN MapperError(record.line)
    ELSE LET values == positional_values("AM", record.fields)
         IN IF values_accepted(values) THEN TypedRecord(values) ELSE MapperError(record.line)

\* ENMapper.__call__
en_mapper(record) ==
    LET values == positional_values("EN", record.fields)
    IN IF values_accepted(values) THEN TypedRecord(values) ELSE MapperError(record.line)

\* MapperFactory.create_mapper: None for a record type without a mapper
create_mapper(mapper_type) == IF mapper_type \in {"AM", "EN"} THEN mapper_type ELSE "None"
\* mapper(record)
map_record(mapper, record) == IF mapper = "AM" THEN am_mapper(record) ELSE en_mapper(record)

\* the records the mappers are applied to: every length up to MaxRecordLen; all fields
\* valid, all empty, a valid first field followed by empty fields, or valid fields with one
\* invalid field
MapperRecordFields ==
    UNION {{[i \in 1..n |-> VALID], [i \in 1..n |-> EMPTY],
            [i \in 1..n |-> IF i = 1 THEN VALID ELSE EMPTY]}
             \cup {[i \in 1..n |-> IF i = k THEN INVALID ELSE VALID] : k \in 1..n} :
           n \in 1..MaxRecordLen}

\* the mapper specification: obs holds the mapper and the record, result the outcome
MapperInit ==
    /\ \E mapper_type \in {"AM", "EN"}, fields \in MapperRecordFields :
        obs = [mapper |-> create_mapper(mapper_type), record |-> Record(1, fields)]
    /\ parser = PullParser(<<>>)
    /\ pc = "idle"
    /\ result = NoOutcome
    /\ WriterIdle

\* typed_record = mapper(record)
MapRecord ==
    /\ pc = "idle"
    /\ result' = map_record(obs.mapper, obs.record)
    /\ pc' = "mapped"
    /\ UNCHANGED <<parser, obs>>
    /\ UNCHANGED wvars

MapperNext == MapRecord

MapperSpec == MapperInit /\ [][MapperNext]_vars

\* no field the record holds fails at its position (and an AM record starts with 'AM')
PresentFieldsAccepted ==
    /\ \A i \in 1..Len(obs.record.fields) :
          i <= Len(SchemaFields(obs.mapper)) => obs.record.fields[i] # INVALID
    /\ obs.mapper = "AM" => obs.record.fields[1] = VALID

\* the schema positions beyond the end of the record hold None in the typed record
MissingPositionsAbsent ==
    /\ result.kind = "TypedRecord"
    /\ \A i \in 1..Len(SchemaFields(obs.mapper)) :
          i > Len(obs.record.fields) => result.values[i] = NONE

\* C33 as stated: for the AM and the EN mapper and a record of any length from one field
\* upward whose fields are acceptable, the positions beyond the end of the record map to
\* None and no MapperError is raised.
C33_MissingFieldsAbsent ==
    (pc = "mapped" /\ PresentFieldsAccepted) => MissingPositionsAbsent

\* C33 as amended: the same for an EN record of any length from one field upward and for an
\* AM record of any length from two fields upward; an AM record of one field raises
\* MapperError.
C33_MissingFieldsAbsentFromTwoFields ==
    /\ (pc = "mapped" /\ PresentFieldsAccepted
          /\ (obs.mapper = "AM" => Len(obs.record.fields) >= 2))
        => MissingPositionsAbsent
    /\ (pc = "mapped" /\ obs.mapper = "AM" /\ Len(obs.record.fields) = 1)
        => result.kind = "MapperError"

\* an AM record of two fields was mapped: sixteen schema positions are missing
C33_Witness ==
    /\ pc = "mapped" /\ obs.mapper = "AM" /\ obs.record.fields = <<VALID, VALID>>
    /\ result.kind = "TypedRecord" /\ result.values[2] = VALID /\ result.values[18] = NONE

(***************************************************************************)
(* The orchestrator (src/src/wdlp/main.py): process_archive runs           *)
(* process_dat_file on every .dat entry of the archive, and                *)
(* process_dat_file pipes parser -> mapper -> writer inside "with writer". *)
(*                                                                         *)
(* It uses the variables as follows: obs is process_archive's state (the   *)
(* archive, the index of the next entry, the format, stats, the committed  *)
(* outputs, the exception that left it); pc is the position in the two     *)
(* functions; parser, writer, fs, buf are the objects of the entry being   *)
(* processed; result is the Record in hand; tx is the record of the        *)
(* entry's with-block.                                                     *)
(***************************************************************************)
\* the lines an entry is made of: a record that maps, a record whose second field is
\* rejected by the mapper, and a line that starts with a delimiter (a ParseError)
GoodLine == <<ORD, PIPE, ORD, LF>>
UnmappableLine == <<ORD, PIPE, "x", LF>>
MalformedLine == <<PIPE, LF>>
EntryLines == {GoodLine, UnmappableLine, MalformedLine}

\* bounds of the archive specification
MaxLines == 2      \* lines of one entry
MaxEntries == 2    \* entries of one archive

RECURSIVE Texts(_)
Texts(n) ==
    IF n = 0 THEN {<<>>}
    ELSE LET T == Texts(n - 1) IN T \cup {t \o l : t \in T, l \in EntryLines}
\* the texts of an entry: up to MaxLines lines
EntryTexts == Texts(MaxLines)

\* an entry of the archive: its name, Path(name).stem.upper(), whether it ends in .dat
Entry(name, stem, dat, text) == [name |-> name, stem |-> stem, dat |-> dat, text |-> text]
Entries ==
    {Entry("AM.dat", "AM", TRUE, t) : t \in EntryTexts}
      \cup {Entry("EN.dat", "EN", TRUE, t) : t \in EntryTexts}
      \cup {Entry("XX.dat", "XX", TRUE, GoodLine), Entry("README.txt", "README", FALSE, GoodLine)}
\* the archives: up to MaxEntries entries with distinct names
Archives ==
    {a \in UNION {[1..n -> Entries] : n \in 1..MaxEntries} :
        \A i, j \in DOMAIN a : i # j => a[i].name # a[j].name}
SchemaTypes == {"AM", "EN", "XX", "README"}

\* typed_record.model_dump(): the dict of all schema fields, a missing value being None
model_dump(mapper, typed_record) ==
    Dict([i \in 1..Len(SchemaFields(mapper)) |->
            <<SchemaFields(mapper)[i],
              IF typed_record.values[i] = NONE THEN "none"
              ELSE IF SchemaFields(mapper)[i] \in IntFields THEN "int"
              ELSE IF SchemaFields(mapper)[i] \in DateFields THEN "date"
              ELSE "str">>])

\* the record of the with-block of one entry
DatTx == [state |-> "none", schema_type |-> "None", exc |-> "None", renamed |-> FALSE,
          exit_raised |-> FALSE, written |-> <<>>, mapper_errors |-> 0]

\* ProcessingStats() and the state of process_archive before its loop
ArchiveInit ==
    /\ \E archive \in Archives, format \in Kinds :
        obs = [archive |-> archive, idx |-> 1, format |-> format,
               record_counts |-> [s \in SchemaTypes |-> 0],
               error_counts |-> [s \in SchemaTypes |-> 0],
               outputs |-> [s \in SchemaTypes |-> Absent],
               committed |-> {}, exc |-> "None"]
    /\ pc = "archive"
    /\ parser = PullParser(<<>>)
    /\ result = NoOutcome
    /\ writer = NewWriterObject("jsonl")
    /\ fs = [final |-> Absent, temp |-> Absent, leftover |-> 0]
    /\ buf = <<>>
    /\ wpc = "out"
    /\ wres = "None"
    /\ tx = DatTx

CurrentEntry == obs.archive[obs.idx]
Mapper == create_mapper(CurrentEntry.stem)

\* process_archive: an entry that does not end in .dat is skipped
SkipEntry ==
    /\ pc = "archive" /\ obs.idx <= Len(obs.archive)
    /\ ~CurrentEntry.dat
    /\ obs' = [obs EXCEPT !.idx = @ + 1]
    /\ UNCHANGED <<pc, parser, result, writer, fs, buf, wpc, wres, tx>>

\* process_dat_file: no mapper for the schema type: error_counts[schema_type] = 1, return
SkipUnknownSchema ==
    /\ pc = "archive" /\ obs.idx <= Len(obs.archive)
    /\ CurrentEntry.dat /\ Mapper = "None"
    /\ obs' = [obs EXCEPT !.idx = @ + 1, !.error_counts[CurrentEntry.stem] = 1]
    /\ UNCHANGED <<pc, parser, result, writer, fs, buf, wpc, wres, tx>>

\* process_dat_file up to "with writer:": the parser, the mapper and the writer are created
StartDatFile ==
    /\ pc = "archive" /\ obs.idx <= Len(obs.archive)
    /\ CurrentEntry.dat /\ Mapper # "None"
    /\ parser' = PullParser(AsStream(CurrentEntry.text))
    /\ writer' = NewWriterObject(obs.format)
    /\ fs' = [final |-> obs.outputs[CurrentEntry.stem], temp |-> Absent, leftover |-> fs.leftover]
    /\ buf' = <<>>
    /\ result' = NoOutcome
    /\ tx' = [DatTx EXCEPT !.schema_type = CurrentEntry.stem]
    /\ pc' = "enter"
    /\ UNCHANGED <<obs, wpc, wres>>

\* an exception leaves process_dat_file; process_archive has no handler, so it leaves
\* process_archive as well
Propagate(exc) == obs' = [obs EXCEPT !.exc = exc] /\ pc' = "done"

\* "with writer:" - __enter__
EnterWriter ==
    /\ pc = "enter"
    /\ \E io \in {"ok", "fail"} :
        IF io = "fail"
        THEN /\ Propagate("OSError")
             /\ UNCHANGED <<parser, result, writer, fs, buf, wpc, wres, tx>>
        ELSE /\ writer' = [writer EXCEPT !.temp_file = "open",
                                         !.temp_dir = named_temporary_file_dir("None"),
                                         !.writer = create_writer(writer.kind)]
             /\ fs' = [fs EXCEPT !.temp = EmptyFile]
             /\ tx' = [tx EXCEPT !.state = "open"]
             /\ pc' = "iterate"
             /\ UNCHANGED <<obs, parser, result, buf, wpc, wres>>

\* "for record in parser:" - one call of next(parser); StopIteration ends the loop and the
\* with-block normally, a ParseError leaves the loop and the with-block
IterateParser ==
    /\ pc = "iterate"
    /\ LET r == next_call(parser) IN
        /\ parser' = r.p
        /\ IF r.out.kind = "Record"
           THEN result' = r.out /\ pc' = "map" /\ UNCHANGED tx
           ELSE IF r.out.kind = "StopIteration"
           THEN result' = NoOutcome /\ pc' = "exit_close" /\ UNCHANGED tx
           ELSE /\ result' = NoOutcome /\ pc' = "exit_close"
                /\ tx' = [tx EXCEPT !.exc = "ParseError"]
    /\ UNCHANGED <<obs, writer, fs, buf, wpc, wres>>

\* a variant of body_step in which a MapperError leaves the loop like any other exception
body_step_aborting_on_mapper_error(st, mapper, record, io) ==
    LET m == map_record(mapper, record) IN
    IF m.kind = "MapperError"
    THEN [st |-> st, exc |-> "MapperError", caught |-> FALSE, dict |-> RecEmpty]
    ELSE LET w == write(st, model_dump(mapper, m), io, TRUE)
         IN [st |-> w.st, exc |-> w.exc, caught |-> FALSE, dict |-> model_dump(mapper, m)]

\* the body of the loop: typed_record = mapper(record); writer.write(typed_record.model_dump());
\* "except (MapperError, ParseError)" catches the mapper's error, not the writer's
body_step(st, mapper, record, io) ==
    LET m == map_record(mapper, record) IN
    IF m.kind = "MapperError"
    THEN [st |-> st, exc |-> "MapperError", caught |-> TRUE, dict |-> RecEmpty]
    ELSE LET w == write(st, model_dump(mapper, m), io, TRUE)
         IN [st |-> w.st, exc |-> w.exc, caught |-> FALSE, dict |-> model_dump(mapper, m)]

\* one pass of the loop body, with the counting of stats
MapAndWrite ==
    /\ pc = "map"
    /\ \E io \in IoOutcomes :
        LET b == body_step(Here, Mapper, result, io) IN
        /\ Becomes(b.st)
        /\ IF b.exc = "None"
           THEN /\ obs' = [obs EXCEPT !.record_counts[CurrentEntry.stem] = @ + 1]
                /\ tx' = [tx EXCEPT !.written = Append(@, b.dict)]
                /\ pc' = "iterate"
           ELSE IF b.caught
           THEN /\ obs' = [obs EXCEPT !.error_counts[CurrentEntry.stem] = @ + 1]
                /\ tx' = [tx EXCEPT !.mapper_errors = @ + 1]
                /\ pc' = "iterate"
           ELSE /\ tx' = [tx EXCEPT !.exc = b.exc]
                /\ pc' = "exit_close"
                /\ UNCHANGED obs
    /\ result' = NoOutcome
    /\ UNCHANGED <<parser, wpc, wres>>

\* __exit__: close the format-specific writer
CloseWriter ==
    /\ pc = "exit_close"
    /\ \E io \in {"ok", "fail"} :
        LET r == exit_close(Here, io) IN
        /\ Becomes(r.st)
        /\ IF r.exc = "None"
           THEN pc' = "exit_finalize" /\ UNCHANGED tx
           ELSE pc' = "exit_finally" /\ tx' = [tx EXCEPT !.exit_raised = TRUE]
    /\ UNCHANGED <<obs, parser, result, wpc, wres>>

\* __exit__: rename the temporary file to the output path, or unlink it
FinalizeOutput ==
    /\ pc = "exit_finalize"
    /\ \E io \in {"ok", "fail"} :
        LET r == exit_finalize(Here, tx.exc, io) IN
        /\ Becomes(r.st)
        /\ tx' = [tx EXCEPT !.renamed = (tx.exc = "None" /\ r.exc = "None"),
                            !.exit_raised = (r.exc # "None")]
    /\ pc' = "exit_finally"
    /\ UNCHANGED <<obs, parser, result, wpc, wres>>

\* __exit__'s finally clause, and the end of process_dat_file: it returns to the loop of
\* process_archive, or the exception of the with statement leaves it
FinishDatFile ==
    /\ pc = "exit_finally"
    /\ LET st == exit_finally(Here, tx.renamed)
           exc == IF tx.exit_raised THEN "WriterError" ELSE tx.exc
       IN /\ Becomes(st)
          /\ tx' = [tx EXCEPT !.state = "closed"]
          /\ IF exc = "None"
             THEN /\ pc' = "archive"
                  /\ obs' = [obs EXCEPT !.idx = @ + 1,
                                        !.outputs[CurrentEntry.stem] = st.fs.final,
                                        !.committed = @ \cup {CurrentEntry.name}]
             ELSE /\ pc' = "done"
                  /\ obs' = [obs EXCEPT !.exc = exc,
                                        !.outputs[CurrentEntry.stem] = st.fs.final]
    /\ UNCHANGED <<parser, result, wpc, wres>>

\* process_archive: the loop over the entries is over, stats is returned
FinishArchive ==
    /\ pc = "archive" /\ obs.idx > Len(obs.archive)
    /\ pc' = "done"
    /\ UNCHANGED <<obs, parser, result, writer, fs, buf, wpc, wres, tx>>

ArchiveNext ==
    \/ SkipEntry
    \/ SkipUnknownSchema
    \/ StartDatFile
    \/ EnterWriter
    \/ IterateParser
    \/ MapAndWrite
    \/ CloseWriter
    \/ FinalizeOutput
    \/ FinishDatFile
    \/ FinishArchive

ArchiveSpec == ArchiveInit /\ [][ArchiveNext]_vars


\* C31: in process_dat_file a MapperError is recoverable per record: the step that raises it
\* writes nothing, adds one to error_counts of the schema and goes on with the loop; after it
\* every record the parser yields still reaches the mapper and, when mapped, is written; and an
\* entry whose only errors were MapperErrors is committed, its output holding exactly the
\* records mapped, with record_counts equal to their number.
C31_MapperErrorRecoverable ==
    /\ [][(pc = "map" /\ map_record(Mapper, result).kind = "MapperError")
            => /\ pc' = "iterate"
               /\ writer' = writer /\ fs' = fs /\ buf' = buf /\ parser' = parser
               /\ tx'.written = tx.written
               /\ obs'.record_counts = obs.record_counts
               /\ obs'.error_counts =
                    [obs.error_counts EXCEPT ![tx.schema_type] = @ + 1]]_vars
    /\ [][(pc = "iterate" /\ tx.mapper_errors >= 1 /\ next_call(parser).out.kind = "Record")
            => pc' = "map" /\ result' = next_call(parser).out]_vars
    /\ [][(pc = "map" /\ tx.mapper_errors >= 1 /\ pc' = "iterate"
             /\ map_record(Mapper, result).kind # "MapperError")
            => tx'.written = Append(tx.written, model_dump(Mapper, map_record(Mapper, result)))]_vars
    /\ []((tx.state = "closed" /\ tx.mapper_errors >= 1 /\ tx.exc = "None" /\ ~tx.exit_raised)
            => /\ tx.renamed
               /\ fs.final.exists
               /\ fs.temp = Absent
               /\ fs.final.data = ExpectedUnits(writer.kind, tx.written)
               /\ obs.record_counts[tx.schema_type] = Len(tx.written)
               /\ obs.error_counts[tx.schema_type] = tx.mapper_errors)

\* an AM entry of an unmappable line followed by a good one is committed as CSV: one header
\* and one row, one record counted, one error counted
C31_Witness ==
    /\ pc = "done" /\ obs.exc = "None" /\ obs.format = "csv"
    /\ Len(obs.archive) = 1 /\ obs.archive[1].name = "AM.dat"
    /\ obs.archive[1].text = UnmappableLine \o GoodLine
    /\ tx.state = "closed" /\ tx.mapper_errors = 1 /\ Len(tx.written) = 1 /\ tx.renamed
    /\ Len(fs.final.data) = 2
    /\ obs.record_counts["AM"] = 1 /\ obs.error_counts["AM"] = 1


\* C32: a ParseError or WriterError raised while an archive entry is processed aborts only
\* that entry's output transaction: the step that ends the failed entry hands control back to
\* the loop of process_archive with the outputs committed earlier unchanged, and neither
\* exception ever leaves process_archive, which goes on to the later entries.
C32_FailureAbortsOnlyTheEntry ==
    /\ [][(pc = "exit_finally" /\ (tx.exc \in {"ParseError", "WriterError"} \/ tx.exit_raised))
            => /\ pc' = "archive"
               /\ obs'.idx = obs.idx + 1
               /\ obs'.exc = "None"
               /\ \A s \in SchemaTypes \ {tx.schema_type} : obs'.outputs[s] = obs.outputs[s]]_vars
    /\ [](obs.exc \notin {"ParseError", "WriterError"})
    /\ []((pc = "done" /\ obs.exc = "None") => obs.idx > Len(obs.archive))


(***************************************************************************)
(* Two pipelines side by side.  Each pipeline is process_dat_file's        *)
(* parser -> mapper -> writer chain with its own PullParser, mapper and    *)
(* writer object, as in the orchestrator above; the only thing the two     *)
(* have in common is the file system, where each has its own destination   *)
(* path and takes its temporary file from tempfile.NamedTemporaryFile.     *)
(* Here parser, pc, result, writer, buf and tx are functions of the        *)
(* pipeline, obs holds what each pipeline was created with, and fs maps    *)
(* every path to its file.  The environment's I/O calls succeed.           *)
(***************************************************************************)
Pipelines == {1, 2}
\* the destination paths of the pipelines (distinct), and the names tempfile can hand out
DestPath == [i \in Pipelines |-> IF i = 1 THEN "dest1" ELSE "dest2"]
TempNames == {"tmp1", "tmp2"}
Paths == {DestPath[i] : i \in Pipelines} \cup TempNames

\* a variant of mkstemp_candidates that does not look at the files that exist
mkstemp_candidates_ignoring_existing(files) == {n \in TempNames : n = "tmp1" \/ files[n].exists}

\* tempfile.NamedTemporaryFile creates its file with O_EXCL: the name is one no file has
mkstemp_candidates(files) == {n \in TempNames : ~files[n].exists}

\* what a pipeline is created with: the writer's format, the mapper's schema, the input text
Setup(kind, schema_type, text) == [kind |-> kind, schema_type |-> schema_type, text |-> text]

\* the input texts of a pipeline: no record, records that are written, a record the mapper
\* rejects, and a malformed line after a record
PipelineTexts ==
    {<<>>, GoodLine, GoodLine \o GoodLine, UnmappableLine \o GoodLine, GoodLine \o MalformedLine}

PipelineInit ==
    /\ \E k1 \in Kinds, k2 \in Kinds, t1 \in PipelineTexts, t2 \in PipelineTexts :
        obs = [i \in Pipelines |-> IF i = 1 THEN Setup(k1, "AM", t1) ELSE Setup(k2, "EN", t2)]
    /\ parser = [i \in Pipelines |-> PullParser(AsStream(obs[i].text))]
    /\ writer = [i \in Pipelines |-> NewWriterObject(obs[i].kind)]
    /\ buf = [i \in Pipelines |-> <<>>]
    /\ result = [i \in Pipelines |-> NoOutcome]
    /\ pc = [i \in Pipelines |-> "enter"]
    /\ tx = [i \in Pipelines |-> [temp_name |-> "None", exc |-> "None", renamed |-> FALSE,
                                  overlapped |-> FALSE]]
    /\ fs = [n \in Paths |-> Absent]
    /\ wpc = "out"
    /\ wres = "None"

\* the writer state of pipeline i as its operations see it: its own object and buffer, the
\* file at its destination path and the file at the name of its temporary file
View(i) ==
    WState(writer[i],
           [final |-> fs[DestPath[i]],
            temp |-> IF tx[i].temp_name = "None" THEN Absent ELSE fs[tx[i].temp_name],
            leftover |-> 0],
           buf[i])
\* the effect of an operation of pipeline i on the objects and on the files at its two paths
Store(i, st) ==
    /\ writer' = [writer EXCEPT ![i] = st.writer]
    /\ buf' = [buf EXCEPT ![i] = st.buf]
    /\ fs' = [n \in Paths |->
                IF n = DestPath[i] THEN st.fs.final
                ELSE IF n = tx[i].temp_name THEN st.fs.temp
                ELSE fs[n]]

\* the positions at which the with-block of a pipeline is open
InTransaction == {"iterate", "map", "exit_close", "exit_finalize", "exit_finally"}

\* open: "with writer:" - __enter__ creates the temporary file; overlapped records that the
\* with-blocks of the two pipelines were open at the same time
PipelineOpen(i) ==
    /\ pc[i] = "enter"
    /\ \E n \in mkstemp_candidates(fs) :
        /\ fs' = [fs EXCEPT ![n] = EmptyFile]
        /\ tx' = [j \in Pipelines |->
                    IF j = i
                    THEN [tx[j] EXCEPT !.temp_name = n,
                                       !.overlapped = \E k \in Pipelines : pc[k] \in InTransaction]
                    ELSE [tx[j] EXCEPT !.overlapped = @ \/ pc[j] \in InTransaction]]
    /\ writer' = [writer EXCEPT ![i] = [@ EXCEPT !.temp_file = "open",
                                                 !.temp_dir = named_temporary_file_dir("None"),
                                                 !.writer = create_writer(writer[i].kind)]]
    /\ pc' = [pc EXCEPT ![i] = "iterate"]
    /\ UNCHANGED <<parser, result, obs, buf, wpc, wres>>

\* read: one call of next(parser)
PipelineRead(i) ==
    /\ pc[i] = "iterate"
    /\ LET r == next_call(parser[i]) IN
        /\ parser' = [parser EXCEPT ![i] = r.p]
        /\ result' = [result EXCEPT ![i] = IF r.out.kind = "Record" THEN r.out ELSE NoOutcome]
        /\ pc' = [pc EXCEPT ![i] = IF r.out.kind = "Record" THEN "map" ELSE "exit_close"]
        /\ tx' = [tx EXCEPT ![i].exc = IF r.out.kind = "ParseError" THEN "ParseError" ELSE @]
    /\ UNCHANGED <<obs, writer, fs, buf, wpc, wres>>

\* write: the body of the loop, mapper(record) and writer.write
PipelineWrite(i) ==
    /\ pc[i] = "map"
    /\ \E io \in {"ok", "spill"} :
        LET b == body_step(View(i), create_mapper(obs[i].schema_type), result[i], io) IN
        /\ Store(i, b.st)
        /\ IF b.exc = "None" \/ b.caught
           THEN pc' = [pc EXCEPT ![i] = "iterate"] /\ UNCHANGED tx
           ELSE pc' = [pc EXCEPT ![i] = "exit_close"] /\ tx' = [tx EXCEPT ![i].exc = b.exc]
    /\ result' = [result EXCEPT ![i] = NoOutcome]
    /\ UNCHANGED <<parser, obs, wpc, wres>>

\* close: __exit__ closes the format-specific writer
PipelineClose(i) ==
    /\ pc[i] = "exit_close"
    /\ Store(i, exit_close(View(i), "ok").st)
    /\ pc' = [pc EXCEPT ![i] = "exit_finalize"]
    /\ UNCHANGED <<parser, result, obs, wpc, wres, tx>>

\* close: __exit__ renames the temporary file to the destination path, or unlinks it; from
\* then on the name is no longer a path of the pipeline's file (its handle stays open on the
\* file itself), and tempfile may hand the name out again
PipelineFinalize(i) ==
    /\ pc[i] = "exit_finalize"
    /\ Store(i, exit_finalize(View(i), tx[i].exc, "ok").st)
    /\ tx' = [tx EXCEPT ![i].renamed = (tx[i].exc = "None"), ![i].temp_name = "None"]
    /\ pc' = [pc EXCEPT ![i] = "exit_finally"]
    /\ UNCHANGED <<parser, result, obs, wpc, wres>>

\* close: the finally clause of __exit__; process_dat_file returns or raises
PipelineFinish(i) ==
    /\ pc[i] = "exit_finally"
    /\ Store(i, exit_finally(View(i), tx[i].renamed))
    /\ pc' = [pc EXCEPT ![i] = IF tx[i].exc = "None" THEN "returned" ELSE "raised"]
    /\ UNCHANGED <<parser, result, obs, wpc, wres, tx>>

PipelineNext ==
    \/ \E i \in Pipelines : PipelineOpen(i)
    \/ \E i \in Pipelines : PipelineRead(i)
    \/ \E i \in Pipelines : PipelineWrite(i)
    \/ \E i \in Pipelines : PipelineClose(i)
    \/ \E i \in Pipelines : PipelineFinalize(i)
    \/ \E i \in Pipelines : PipelineFinish(i)

PipelineSpec == PipelineInit /\ [][PipelineNext]_vars

\* the loop of process_dat_file run to its end on the writer state st and the parser p
RECURSIVE run_loop(_, _, _)
run_loop(st, p, mapper) ==
    LET r == next_call(p) IN
    IF r.out.kind = "StopIteration" THEN WDone(st)
    ELSE IF r.out.kind = "ParseError" THEN WRaise(st, "ParseError")
    ELSE LET b == body_step(st, mapper, r.out, "ok") IN
         IF b.exc = "None" \/ b.caught THEN run_loop(b.st, r.p, mapper)
         ELSE WRaise(b.st, b.exc)

\* the file at the destination path after process_dat_file ran alone, from start to end, on
\* an empty file system
run_alone(setup) ==
    LET w == [NewWriterObject(setup.kind) EXCEPT !.temp_file = "open",
                                                  !.temp_dir = named_temporary_file_dir("None"),
                                                  !.writer = create_writer(setup.kind)]
        entered == WState(w, [final |-> Absent, temp |-> EmptyFile, leftover |-> 0], <<>>)
        body == run_loop(entered, PullParser(AsStream(setup.text)),
                         create_mapper(setup.schema_type))
        closed == exit_close(body.st, "ok").st
        finalized == exit_finalize(closed, body.exc, "ok").st
    IN exit_finally(finalized, body.exc = "None").fs.final

\* C34: two pipelines with their own parser and writer objects and distinct destination
\* paths do not disturb each other: however their open, read, write and close steps
\* interleave, once a pipeline has ended its destination holds exactly what the pipeline
\* produces when it runs alone, and it keeps holding it while the other pipeline runs.
C34_PipelinesIndependent ==
    \A i \in Pipelines :
        pc[i] \in {"returned", "raised"} => fs[DestPath[i]] = run_alone(obs[i])

\* both pipelines have ended after running with their with-blocks open at the same time, and
\* both destinations hold their records
C34_Witness ==
    /\ \A i \in Pipelines : pc[i] = "returned" /\ Len(fs[DestPath[i]].data) >= 2
    /\ \A i \in Pipelines : tx[i].overlapped
    /\ obs[1].kind = "csv" /\ obs[2].kind = "parquet"
    /\ \A n \in TempNames : ~fs[n].exists

====
